---- MODULE Spec2Model ----
(***************************************************************************)
(* The per-exchange filter state machine of the Coraza Envoy Go filter     *)
(* (internal/filter/filter.go).  One Filter instance handles one HTTP      *)
(* exchange: the host proxy delivers DecodeHeaders, DecodeData*,           *)
(* EncodeHeaders, EncodeData* and finally OnDestroy; every handler calls   *)
(* synchronously into the rule-engine Transaction and into the host's      *)
(* callbacks.  The Transaction and the host are collaborators: what they   *)
(* return is chosen nondeterministically, what the filter does with it is  *)
(* translated from the handlers.                                           *)
(***************************************************************************)
EXTENDS Integers, Sequences, FiniteSets, TLC

(***************************************************************************)
(* Bounds of the model                                                     *)
(***************************************************************************)
\* body chunk events the host delivers per direction
MaxChunks == 2

(***************************************************************************)
(* Program constants                                                       *)
(***************************************************************************)
StatusBadRequest == 400
StatusForbidden == 403
StatusInternalServerError == 500

connectionStateHTTP == 0
connectionStateUpgradeWebsocketRequested == 1
connectionStateWebsocketConnection == 2

PhaseUnknown == 0
PhaseRequestHeader == 1
PhaseRequestBody == 2
PhaseResponseHeader == 3
PhaseResponseBody == 4

HOSTPOSTSEPARATOR == ":"

\* api.StatusType values returned by the handlers
Continue == "Continue"
StopAndBuffer == "StopAndBuffer"
StopAndBufferWatermark == "StopAndBufferWatermark"
LocalReply == "LocalReply"
\* a handler that dereferences the nil Transaction does not return at all
Panic == "panic"
\* OnDestroy has no return value; also the value before the first event
NoStatus == "none"

Decoder == "decoder"
Encoder == "encoder"

(***************************************************************************)
(* Strings are sequences of one-character strings, so that splitting,      *)
(* lower-casing and searching are computed from the characters.            *)
(***************************************************************************)
EmptyString == << >>

Digits == {"0", "1", "2", "3", "4", "5", "6", "7", "8", "9"}

DigitValue(c) ==
    CASE c = "0" -> 0 [] c = "1" -> 1 [] c = "2" -> 2 [] c = "3" -> 3
      [] c = "4" -> 4 [] c = "5" -> 5 [] c = "6" -> 6 [] c = "7" -> 7
      [] c = "8" -> 8 [] OTHER -> 9

\* strings.ToLower on the letters the header values and log formats below use
LowerChar(c) ==
    CASE c = "W" -> "w" [] c = "S" -> "s" [] c = "U" -> "u" [] c = "H" -> "h"
      [] c = "J" -> "j" [] c = "O" -> "o" [] c = "N" -> "n"
      [] OTHER -> c

ToLower(str) == [i \in 1..Len(str) |-> LowerChar(str[i])]

\* strings.Contains
Contains(str, sub) ==
    \E i \in 1..(Len(str) + 1) :
        /\ i + Len(sub) - 1 <= Len(str)
        /\ SubSeq(str, i, i + Len(sub) - 1) = sub

ColonPositions(str) == {i \in 1..Len(str) : str[i] = HOSTPOSTSEPARATOR}

LastColon(str) == CHOOSE i \in ColonPositions(str) : \A j \in ColonPositions(str) : j <= i

NoError == "nil"

(***************************************************************************)
(* net.SplitHostPort on bracket-free input: the port is what follows the   *)
(* last colon, and the host part may not contain a colon itself.           *)
(***************************************************************************)
SplitHostPort(hostport) ==
    IF ColonPositions(hostport) = {}
    THEN [host |-> EmptyString, port |-> EmptyString, err |-> "missing port in address"]
    ELSE LET i == LastColon(hostport)
             h == SubSeq(hostport, 1, i - 1)
         IN  IF ColonPositions(h) # {}
             THEN [host |-> EmptyString, port |-> EmptyString, err |-> "too many colons in address"]
             ELSE [host |-> h, port |-> SubSeq(hostport, i + 1, Len(hostport)), err |-> NoError]

RECURSIVE DecimalValue(_)
DecimalValue(str) ==
    IF Len(str) = 0 THEN 0
    ELSE 10 * DecimalValue(SubSeq(str, 1, Len(str) - 1)) + DigitValue(str[Len(str)])

\* strconv.Atoi on unsigned input
Atoi(str) ==
    IF Len(str) = 0 \/ \E i \in 1..Len(str) : str[i] \notin Digits
    THEN [value |-> 0, err |-> "invalid syntax"]
    ELSE [value |-> DecimalValue(str), err |-> NoError]

(***************************************************************************)
(* Inputs of the events                                                    *)
(***************************************************************************)
\* the Host of the request: absent, a name, name:port, and one that does not split
Hosts == { EmptyString, <<"h">>, <<"h", ":", "8">>, <<"h", ":", "8", ":", "8">> }

\* downstream addresses as the proxy reports them: ip:port, no port, non-numeric port
Addrs == { <<"1", ":", "8">>, <<"1", "2", "7", "1">>, <<"1", ":", "8", "x">> }

Websocket == <<"w", "e", "b", "s", "o", "c", "k", "e", "t">>
WebSocketMixed == <<"W", "e", "b", "S", "o", "c", "k", "e", "t">>
Upgrade == <<"u", "p", "g", "r", "a", "d", "e">>
KeepAliveUpgrade == <<"k", "a", ",", "U", "p", "g", "r", "a", "d", "e">>
H2c == <<"h", "2", "c">>
RequestId == "req-1"

Header(k, v) == [key |-> k, value |-> v]

\* header maps in iteration order
HeaderMaps ==
    { << >>,
      << Header("x-request-id", RequestId), Header("upgrade", Websocket),
         Header("connection", H2c) >>,
      << Header("upgrade", Websocket), Header("connection", Upgrade) >>,
      << Header("connection", KeepAliveUpgrade), Header("upgrade", WebSocketMixed) >> }

\* the bytes of a body chunk, none of them zero
InputBytes == {7}
\* a chunk is empty or carries bytes
Buffers == { << >> } \cup { << b >> : b \in InputBytes }

\* statuses an Interruption of the engine can carry: the status of the rule's
\* action, not one of the statuses the filter sends of its own
InterruptionStatuses == {413}

\* what an engine operation returns: status 0 stands for a nil *Interruption;
\* an operation can also hand back an Interruption together with an error
Outcomes == [status : {0} \cup InterruptionStatuses, err : {FALSE}]
              \cup [status : {0} \cup InterruptionStatuses, err : {TRUE}]
\* ProcessRequestHeaders and ProcessResponseHeaders return an Interruption only
HeaderOutcomes == {o \in Outcomes : ~o.err}
Ok == [status |-> 0, err |-> FALSE]

Protocols == {"HTTP/1.1"}
DefaultProtocol == "HTTP/2.0"

(***************************************************************************)
(* The shared Configuration (read only)                                    *)
(***************************************************************************)
DefaultDirective == "default"
HostDirectiveMap == [h \in { <<"h", ":", "8">> } |-> "strict"]
WafNames == {"default", "strict"}

Json == <<"j", "s", "o", "n">>
Plain == <<"p", "l", "a", "i", "n">>

\* the Configuration as loaded, before any stream is handled
Configuration ==
    [DefaultDirective |-> DefaultDirective, HostDirectiveMap |-> HostDirectiveMap,
     WafMaps |-> WafNames, LogFormat |-> Plain]

(***************************************************************************)
(* Parser.Parse: the plugin configuration as the proxy hands it over, a    *)
(* struct of optional fields.  A field is absent (or not a string), a      *)
(* string that does not decode, or a string with its decoded value:        *)
(* directives is a map keyed by directive names, host_directive_map a map  *)
(* from hosts to directive names.                                          *)
(***************************************************************************)
\* the names of directive sets; the rules of "broken" do not compile
DirectiveNames == {"default", "strict", "broken"}
MappedHosts == { <<"h">>, <<"h", ":", "8">> }

Field(kind, value) == [kind |-> kind, value |-> value]

DirectivesFields ==
    { Field("absent", {}), Field("malformed", {}) }
        \cup { Field("string", d) : d \in SUBSET DirectiveNames }
DefaultDirectiveFields ==
    { Field("absent", "") } \cup { Field("string", d) : d \in DirectiveNames }
HostDirectiveMapFields ==
    { Field("absent", << >>), Field("other", << >>), Field("malformed", << >>) }
        \cup { Field("string", hm) : hm \in UNION { [hs -> DirectiveNames] : hs \in SUBSET MappedHosts } }
LogFormatFields ==
    { Field("absent", << >>), Field("string", <<"J", "S", "O", "N">>),
      Field("string", <<"x", "m", "l">>) }

TypedStructs ==
    [directives : DirectivesFields, default_directive : DefaultDirectiveFields,
     host_directive_map : HostDirectiveMapFields, log_format : LogFormatFields]

\* the struct the Configuration above is parsed from
ConfigurationSource ==
    [directives |-> Field("string", WafNames),
     default_directive |-> Field("string", DefaultDirective),
     host_directive_map |-> Field("string", HostDirectiveMap),
     log_format |-> Field("absent", << >>)]

\* the nil Configuration returned with an error
NoConfiguration ==
    [DefaultDirective |-> "", HostDirectiveMap |-> << >>, WafMaps |-> {}, LogFormat |-> << >>]

\* coraza.NewWAF: whether the rules of a directive set compile
NewWAF(name) == name # "broken"

Rejected(err) == [config |-> NoConfiguration, err |-> err]

\* Parse: a host is mapped to a name that is not among the directives
UnknownHostDirective(v) ==
    \E h \in DOMAIN v.host_directive_map.value :
        v.host_directive_map.value[h] \notin v.directives.value

Parse(v) ==
    LET wafMaps == {wafName \in v.directives.value : NewWAF(wafName)}
    IN  IF v.directives.kind = "absent" THEN Rejected("directives does not exist")
        ELSE IF v.directives.kind = "malformed" THEN Rejected("directives: invalid JSON")
        ELSE IF v.directives.value = {} THEN Rejected("directives is empty")
        ELSE IF \E wafName \in v.directives.value : ~NewWAF(wafName)
        THEN Rejected("mapping waf init error")
        ELSE IF v.default_directive.kind # "string"
        THEN Rejected("default_directive does not exist")
        ELSE IF v.default_directive.value \notin v.directives.value
        THEN Rejected("the referenced default_directive does not exist in directives")
        ELSE IF v.host_directive_map.kind = "other"
        THEN Rejected("host_directive_map is not a JSON string")
        ELSE IF v.host_directive_map.kind = "malformed"
        THEN Rejected("host_directive_map: invalid JSON")
        ELSE IF v.host_directive_map.kind = "string" /\ UnknownHostDirective(v)
        THEN Rejected("the referenced directive for host does not exist")
        ELSE IF v.log_format.kind = "string" /\ ToLower(v.log_format.value) \notin {Json, Plain}
        THEN Rejected("Invalid log_format. Only 'json' and 'plain' is supported")
        ELSE [config |-> [DefaultDirective |-> v.default_directive.value,
                          HostDirectiveMap |-> v.host_directive_map.value,
                          WafMaps |-> wafMaps,
                          LogFormat |-> IF v.log_format.kind = "string"
                                        THEN ToLower(v.log_format.value) ELSE Plain],
              err |-> NoError]

\* Parse: the package-level logFormat after the call; a struct rejected
\* before or at its log_format leaves the variable as it was
ParseLogFormat(v, current) ==
    IF Parse(v).err # NoError THEN current
    ELSE IF v.log_format.kind = "string" THEN ToLower(v.log_format.value)
    ELSE Plain

\* no line written yet, no Logger built yet
NoLine == [format |-> << >>]
NoLogger == [format |-> << >>]

(***************************************************************************)
(* The Transaction, as far as the filter can observe it                    *)
(***************************************************************************)
NilTx == [nil |-> TRUE, ruleEngineOff |-> FALSE,
          requestBodyAccess |-> FALSE, responseBodyAccess |-> FALSE, closed |-> FALSE]

\* the rule-engine settings of the WAF a transaction is created from
TxSettings == [ruleEngineOff : BOOLEAN, requestBodyAccess : BOOLEAN, responseBodyAccess : BOOLEAN]

\* the filter observes of a new transaction only the settings of its WAF
NewTransactionWithID(cfg) ==
    [nil |-> FALSE, ruleEngineOff |-> cfg.ruleEngineOff,
     requestBodyAccess |-> cfg.requestBodyAccess,
     responseBodyAccess |-> cfg.responseBodyAccess, closed |-> FALSE]

(***************************************************************************)
(* The calls a handler makes, in order: engine operations, SendLocalReply, *)
(* buffer.Set and the error/info log lines.                                *)
(***************************************************************************)
Call(op, dir, status, err, body, arg) ==
    [op |-> op, dir |-> dir, status |-> status, err |-> err, body |-> body, arg |-> arg]

EmptyBody == ""

Record(s, c) == [s EXCEPT !.calls = Append(@, c)]

\* an operation on the Transaction and what it returned
EngineCall(s, op, out, arg) == Record(s, Call(op, "", out.status, out.err, "", arg))

\* a query of the Transaction's settings (IsRuleEngineOff, Is*BodyAccessible)
Query(s, op) == Record(s, Call(op, "", 0, FALSE, "", ""))

SendLocalReply(s, dir, status, body, details) ==
    Record(s, Call("SendLocalReply", dir, status, FALSE, body, details))

logError(s, msg) == Record(s, Call("Log", "error", 0, FALSE, "", msg))
logInfo(s, msg) == Record(s, Call("Log", "info", 0, FALSE, "", msg))

(***************************************************************************)
(* connection_type.go                                                      *)
(***************************************************************************)
IsHttp(c) == c = connectionStateHTTP
IsWebsocket(c) == c = connectionStateWebsocketConnection
IsWebsocketUpgradeRequested(c) == c = connectionStateUpgradeWebsocketRequested

(***************************************************************************)
(* Helpers of the handlers.  s is the filter (its fields, the chunk buffer *)
(* in hand and the calls made so far in the running handler); a helper     *)
(* that can fail returns the filter and the error.                         *)
(***************************************************************************)
\* a dispatcher that answers every Interruption on the decoder callbacks
PhaseDirection_AlwaysDecoder(phase) == Decoder

\* the callbacks an Interruption of the given phase is answered on
PhaseDirection(phase) ==
    CASE phase \in {PhaseRequestHeader, PhaseRequestBody} -> Decoder
      [] phase \in {PhaseResponseHeader, PhaseResponseBody} -> Encoder
      [] OTHER -> ""

\* a dispatcher that answers every Interruption with 403
handleInterruption_Forbidden(s, phase, status) ==
    LET s1 == [s EXCEPT !.wasInterrupted = TRUE]
        s2 == logInfo(s1, "Transaction interrupted")
    IN  IF PhaseDirection(phase) = "" THEN s2
        ELSE SendLocalReply(s2, PhaseDirection(phase), StatusForbidden, EmptyBody, "")

handleInterruption(s, phase, status) ==
    LET s1 == [s EXCEPT !.wasInterrupted = TRUE]
        s2 == logInfo(s1, "Transaction interrupted")
    IN  IF PhaseDirection(phase) = "" THEN s2
        ELSE SendLocalReply(s2, PhaseDirection(phase), status, EmptyBody, "")

\* a request-body finalize that lets the exchange go on after an error
validateRequestBody_FailOpen(s, out) ==
    LET s1 == EngineCall(s, "ProcessRequestBody", out, "")
    IN  IF out.err
        THEN [s |-> logError(s1, "Failed to process request body"), err |-> NoError]
        ELSE IF out.status # 0
        THEN [s |-> handleInterruption(s1, PhaseRequestBody, out.status),
              err |-> "found interruption"]
        ELSE [s |-> s1, err |-> NoError]

validateRequestBody(s, out) ==
    LET s1 == EngineCall(s, "ProcessRequestBody", out, "")
    IN  IF out.err
        THEN [s |-> SendLocalReply(s1, Decoder, StatusInternalServerError, EmptyBody, ""),
              err |-> "failed to process request body"]
        ELSE IF out.status # 0
        THEN [s |-> handleInterruption(s1, PhaseRequestBody, out.status),
              err |-> "found interruption"]
        ELSE [s |-> s1, err |-> NoError]

\* a response-body finalize that reports an engine error without answering
validateResponseBody_Unanswered(s, out) ==
    LET s1 == EngineCall(s, "ProcessResponseBody", out, "")
    IN  IF out.err
        THEN [s |-> s1, err |-> "failed to process response body"]
        ELSE IF out.status # 0
        THEN [s |-> handleInterruption(s1, PhaseResponseBody, out.status),
              err |-> "found interruption"]
        ELSE [s |-> s1, err |-> NoError]

validateResponseBody(s, out) ==
    LET s1 == EngineCall(s, "ProcessResponseBody", out, "")
    IN  IF out.err
        THEN [s |-> SendLocalReply(s1, Encoder, StatusInternalServerError, EmptyBody, ""),
              err |-> "failed to process response body"]
        ELSE IF out.status # 0
        THEN [s |-> handleInterruption(s1, PhaseResponseBody, out.status),
              err |-> "found interruption"]
        ELSE [s |-> s1, err |-> NoError]

\* an address split that reports a bad port without answering the client
splitHostPort_SilentPort(s, hostPortCombination) ==
    LET sp == SplitHostPort(hostPortCombination)
        port == Atoi(sp.port)
    IN  IF sp.err # NoError
        THEN [s |-> SendLocalReply(s, Decoder, StatusBadRequest, EmptyBody, ""),
              ip |-> EmptyString, port |-> 0, err |-> "address formatting err"]
        ELSE IF port.err # NoError
        THEN [s |-> s, ip |-> EmptyString, port |-> 0, err |-> "port formatting err"]
        ELSE [s |-> s, ip |-> sp.host, port |-> port.value, err |-> NoError]

splitHostPort(s, hostPortCombination) ==
    LET sp == SplitHostPort(hostPortCombination)
        port == Atoi(sp.port)
    IN  IF sp.err # NoError
        THEN [s |-> SendLocalReply(s, Decoder, StatusBadRequest, EmptyBody, ""),
              ip |-> EmptyString, port |-> 0, err |-> "address formatting err"]
        ELSE IF port.err # NoError
        THEN [s |-> SendLocalReply(s, Decoder, StatusBadRequest, EmptyBody, ""),
              ip |-> EmptyString, port |-> 0, err |-> "port formatting err"]
        ELSE [s |-> s, ip |-> sp.host, port |-> port.value, err |-> NoError]

\* headerMap.Get
HeaderExists(hm, k) == \E i \in 1..Len(hm) : hm[i].key = k
HeaderGet(hm, k) == hm[CHOOSE i \in 1..Len(hm) : hm[i].key = k].value

\* a routing that sends every host to the default WAF
SelectWaf_DefaultOnly(Config, host) == Config.DefaultDirective

\* the WAF the transaction of a host is created from
SelectWaf(Config, host) ==
    IF host \in DOMAIN Config.HostDirectiveMap
    THEN Config.HostDirectiveMap[host]
    ELSE Config.DefaultDirective

initializeTx(s, in) ==
    LET exist == HeaderExists(in.headers, "x-request-id")
        s0 == IF exist THEN s ELSE logError(s, "Error getting x-request-id header")
        xReqId == IF exist THEN HeaderGet(in.headers, "x-request-id") ELSE ""
        s1 == Record([s0 EXCEPT !.tx = NewTransactionWithID(in.cfg)],
                     Call("NewTransactionWithID", SelectWaf(s.Config, in.host), 0, FALSE, "", xReqId))
        s2 == EngineCall(s1, "AddRequestHeader", Ok, "Host")
        sp == SplitHostPort(in.host)
    IN  IF Contains(in.host, <<HOSTPOSTSEPARATOR>>) /\ sp.err # NoError
        THEN [s |-> SendLocalReply(s2, Decoder, StatusForbidden, EmptyBody, ""),
              err |-> "failed to parse server name from Host"]
        ELSE [s |-> EngineCall(s2, "SetServerName", Ok, ""), err |-> NoError]

\* headerMap.Range feeding every header to the engine
RECURSIVE AddHeaders(_, _, _)
AddHeaders(s, op, hm) ==
    IF Len(hm) = 0 THEN s
    ELSE AddHeaders(EngineCall(s, op, Ok, hm[1].key), op, Tail(hm))

\* the Upgrade: websocket / Connection: upgrade pair
HasUpgradeWebsocket(hm) ==
    \E i \in 1..Len(hm) : hm[i].key = "upgrade" /\ Contains(ToLower(hm[i].value), Websocket)
HasConnectionUpgrade(hm) ==
    \E i \in 1..Len(hm) : hm[i].key = "connection" /\ Contains(ToLower(hm[i].value), Upgrade)

(***************************************************************************)
(* The handlers.  Each takes the filter and the inputs of the event and    *)
(* returns the filter afterwards and the status handed back to the host.   *)
(***************************************************************************)
Result(s, ret) == [s |-> s, ret |-> ret]

\* a DecodeHeaders without the guard on the Host
HostMissing_Never(host) == FALSE

\* DecodeHeaders: the guard on the Host of the request
HostMissing(host) == Len(host) = 0

\* a DecodeHeaders that feeds the headers before the connection and the URI
DecodeHeadersEvaluate_HeadersFirst(s, in) ==
    LET protocol == IF in.protocolOk THEN in.protocol ELSE DefaultProtocol
        s1 == AddHeaders(s, "AddRequestHeader", in.headers)
        s2 == IF HasUpgradeWebsocket(in.headers) /\ HasConnectionUpgrade(in.headers)
              THEN [s1 EXCEPT !.connection = connectionStateUpgradeWebsocketRequested]
              ELSE s1
        s3 == EngineCall(s2, "ProcessConnection", Ok, "")
        s4 == IF in.protocolOk THEN s3 ELSE Record(s3, Call("Log", "warn", 0, FALSE, "", "Protocol not set"))
        s5 == EngineCall([s4 EXCEPT !.httpProtocol = protocol], "ProcessURI", Ok, protocol)
        s6 == EngineCall(s5, "ProcessRequestHeaders", in.prh, "")
        v == validateRequestBody(s6, in.prb)
    IN  IF in.prh.status # 0
        THEN Result(handleInterruption(s6, PhaseRequestHeader, in.prh.status), LocalReply)
        ELSE IF in.endStream
        THEN IF v.err # NoError
             THEN Result(logError(v.s, v.err), LocalReply)
             ELSE Result(v.s, Continue)
        ELSE Result(s6, StopAndBufferWatermark)

\* DecodeHeaders, from ProcessConnection on
DecodeHeadersEvaluate(s, in) ==
    LET s1 == EngineCall(s, "ProcessConnection", Ok, "")
        protocol == IF in.protocolOk THEN in.protocol ELSE DefaultProtocol
        s2 == IF in.protocolOk THEN s1 ELSE Record(s1, Call("Log", "warn", 0, FALSE, "", "Protocol not set"))
        s3 == EngineCall([s2 EXCEPT !.httpProtocol = protocol], "ProcessURI", Ok, protocol)
        s4 == AddHeaders(s3, "AddRequestHeader", in.headers)
        s5 == IF HasUpgradeWebsocket(in.headers) /\ HasConnectionUpgrade(in.headers)
              THEN [s4 EXCEPT !.connection = connectionStateUpgradeWebsocketRequested]
              ELSE s4
        s6 == EngineCall(s5, "ProcessRequestHeaders", in.prh, "")
        v == validateRequestBody(s6, in.prb)
    IN  IF in.prh.status # 0
        THEN Result(handleInterruption(s6, PhaseRequestHeader, in.prh.status), LocalReply)
        ELSE IF in.endStream
        THEN IF v.err # NoError
             THEN Result(logError(v.s, v.err), LocalReply)
             ELSE Result(v.s, Continue)
        ELSE Result(s6, StopAndBufferWatermark)

DecodeHeadersFn(s0, in) ==
    LET s == [s0 EXCEPT !.connection = connectionStateHTTP]
        i == initializeTx(s, in)
        q == Query(i.s, "IsRuleEngineOff")
        src == splitHostPort(q, in.remote)
        dst == splitHostPort(src.s, in.local)
    IN  IF HostMissing(in.host)
        THEN Result(SendLocalReply(s, Decoder, StatusForbidden, EmptyBody, ""), LocalReply)
        ELSE IF i.err # NoError
        THEN Result(logError(i.s, i.err), LocalReply)
        ELSE IF q.tx.ruleEngineOff
        THEN Result(q, Continue)
        ELSE IF src.err # NoError
        THEN Result(logError(src.s, src.err), LocalReply)
        ELSE IF dst.err # NoError
        THEN Result(logError(dst.s, dst.err), LocalReply)
        ELSE DecodeHeadersEvaluate(dst.s, in)

\* a DecodeData that forgets the interruption
DecodeDataInterrupted_Never(s) == FALSE

\* DecodeData: the re-reply once the exchange was interrupted
DecodeDataInterrupted(s) == s.wasInterrupted

\* a DecodeData that goes on although the rule engine is off
DecodeDataSkips_Never(s) == FALSE

\* DecodeData: nothing is inspected when the rule engine is off
DecodeDataSkips(s) == s.tx.ruleEngineOff

\* DecodeData: the end of the body, or the next chunk
DecodeDataAfterWrite(s, in) ==
    LET s1 == [s EXCEPT !.wasRequestBodyProcessed = TRUE]
        v == validateRequestBody(s1, in.prb)
    IN  IF in.endStream
        THEN IF v.err # NoError
             THEN Result(logError(v.s, v.err), LocalReply)
             ELSE Result(v.s, Continue)
        ELSE IF IsHttp(s.connection)
        THEN Result(s, StopAndBuffer)
        ELSE Result(s, Continue)

DecodeDataFn(s, in) ==
    LET q1 == Query(s, "IsRuleEngineOff")
        q2 == Query(q1, "IsRequestBodyAccessible")
        v == validateRequestBody(q2, in.prb)
        w == EngineCall(q2, "WriteRequestBody", in.wr, "")
    IN  IF DecodeDataInterrupted(s)
        THEN Result(SendLocalReply(s, Decoder, StatusForbidden, EmptyBody,
                                   "interruption-already-handled"), LocalReply)
        ELSE IF s.tx.nil
        THEN Result(Record(s, Call("panic", "", 0, FALSE, "", "IsRuleEngineOff on nil Transaction")), Panic)
        ELSE IF DecodeDataSkips(s)
        THEN Result(q1, Continue)
        ELSE IF ~s.tx.requestBodyAccess
        THEN IF v.err # NoError
             THEN Result(logError(v.s, v.err), LocalReply)
             ELSE Result(v.s, Continue)
        ELSE IF Len(s.buffer) > 0
        THEN IF in.wr.err
             THEN Result(SendLocalReply(logError(w, "Failed to write request body"), Decoder,
                                        StatusInternalServerError, EmptyBody, ""), LocalReply)
             ELSE IF in.wr.status # 0
             THEN Result(handleInterruption(w, PhaseRequestBody, in.wr.status), LocalReply)
             ELSE DecodeDataAfterWrite(w, in)
        ELSE Result(q2, Continue)

\* an EncodeHeaders that forgets the interruption
EncodeHeadersInterrupted_Never(s) == FALSE

\* EncodeHeaders: the events that pass through untouched
EncodeHeadersInterrupted(s) == s.wasInterrupted

\* the late request-body phase dispatched as a request phase
LateRequestBodyPhase_Request == PhaseRequestBody

\* EncodeHeaders: the request-body phase run late, before the response headers
LateRequestBodyPhase == PhaseResponseHeader

\* an EncodeHeaders that never runs the request-body phase itself
LateRequestBodyDue_Never(s) == FALSE

\* EncodeHeaders: the request-body phase was not finalized on the request side
LateRequestBodyDue(s) == ~s.wasRequestBodyProcessed

\* an EncodeHeaders that buffers whether or not the response body is inspected
BufferResponseHeaders_IgnoringAccess(s, endStream) == ~endStream /\ IsHttp(s.connection)

\* an EncodeHeaders that buffers on every kind of connection
BufferResponseHeaders_AnyConnection(s, endStream) == ~endStream /\ s.tx.responseBodyAccess

\* an EncodeHeaders that buffers the headers of a response without body too
BufferResponseHeaders_AtEndOfStream(s, endStream) ==
    s.tx.responseBodyAccess /\ IsHttp(s.connection)

\* EncodeHeaders: the headers are held back while a body is to be inspected
BufferResponseHeaders(s, endStream) ==
    ~endStream /\ s.tx.responseBodyAccess /\ IsHttp(s.connection)

\* an EncodeHeaders that takes the upgrade from the response alone
PromoteWebsocket_Unasked(s, hm) == HasUpgradeWebsocket(hm) /\ HasConnectionUpgrade(hm)

\* EncodeHeaders: the response confirms the upgrade the request asked for
PromoteWebsocket(s, hm) ==
    /\ IsWebsocketUpgradeRequested(s.connection)
    /\ HasUpgradeWebsocket(hm) /\ HasConnectionUpgrade(hm)

\* EncodeHeaders, from the response headers on
EncodeHeadersEvaluate(s, in) ==
    LET s1 == AddHeaders(s, "AddResponseHeader", in.headers)
        s2 == IF PromoteWebsocket(s, in.headers)
              THEN [s1 EXCEPT !.connection = connectionStateWebsocketConnection]
              ELSE s1
        s3 == EngineCall(s2, "ProcessResponseHeaders", in.prh, s2.httpProtocol)
        q == Query(s3, "IsResponseBodyAccessible")
        v == validateResponseBody(s3, in.prsb)
    IN  IF in.prh.status # 0
        THEN Result(handleInterruption(s3, PhaseResponseHeader, in.prh.status), LocalReply)
        ELSE IF BufferResponseHeaders(s3, in.endStream)
        THEN Result(q, StopAndBuffer)
        ELSE IF ~in.endStream
        THEN Result(q, Continue)
        ELSE IF v.err # NoError
        THEN Result(logError(v.s, v.err), LocalReply)
        ELSE Result(v.s, Continue)

EncodeHeadersFn(s, in) ==
    LET q == Query(s, "IsRuleEngineOff")
        s1 == [q EXCEPT !.wasRequestBodyProcessed = TRUE]
        c == EngineCall(s1, "ProcessRequestBody", in.prb, "")
    IN  IF EncodeHeadersInterrupted(s)
        THEN Result(s, Continue)
        ELSE IF s.tx.nil
        THEN Result(s, Continue)
        ELSE IF s.tx.ruleEngineOff
        THEN Result(q, Continue)
        ELSE IF LateRequestBodyDue(s)
        THEN IF in.prb.err
             THEN Result(SendLocalReply(logError(c, "Failed to process request body"), Encoder,
                                        StatusInternalServerError, EmptyBody, ""), LocalReply)
             ELSE IF in.prb.status # 0
             THEN Result(handleInterruption(c, LateRequestBodyPhase, in.prb.status), LocalReply)
             ELSE EncodeHeadersEvaluate(c, in)
        ELSE EncodeHeadersEvaluate(q, in)

\* an EncodeData that inspects the frames of a websocket
EncodeDataSkips_InspectingWebsocket(s) ==
    \/ s.tx.nil
    \/ s.tx.ruleEngineOff
    \/ s.wasResponseBodyProcessedWithNoBody

\* an EncodeData that forgets the body was finalized without being read
EncodeDataSkips_ForgettingNoBody(s) ==
    \/ s.tx.nil
    \/ s.tx.ruleEngineOff
    \/ IsWebsocket(s.connection)

\* EncodeData: the chunks that pass through without a look at the interruption
EncodeDataSkips(s) ==
    \/ s.tx.nil
    \/ s.tx.ruleEngineOff
    \/ IsWebsocket(s.connection)
    \/ s.wasResponseBodyProcessedWithNoBody

Zeros(len) == [i \in 1..len |-> 0]

\* EncodeData: the end of the body
EncodeDataEndOfStream(s, in) ==
    LET s1 == [s EXCEPT !.wasResponseBodyProcessed = TRUE]
        v == validateResponseBody(s1, in.prsb)
        scrubbed == Record([v.s EXCEPT !.buffer = Zeros(Len(@))],
                           Call("buffer.Set", "", 0, FALSE, "", ""))
    IN  IF v.err # NoError
        THEN Result(logError(scrubbed, NoError), LocalReply)
        ELSE Result(v.s, Continue)

\* an EncodeData that notes the missing body but not the finished phase
MarkProcessedWithNoBody_Alone(s) ==
    [s EXCEPT !.wasResponseBodyProcessedWithNoBody = TRUE]

\* EncodeData: the response-body phase is finalized without a body
MarkProcessedWithNoBody(s) ==
    [s EXCEPT !.wasResponseBodyProcessedWithNoBody = TRUE,
              !.wasResponseBodyProcessed = TRUE]

EncodeDataFn(s, in) ==
    LET q1 == IF s.tx.nil THEN s ELSE Query(s, "IsRuleEngineOff")
        q2 == Query(q1, "IsResponseBodyAccessible")
        s1 == MarkProcessedWithNoBody(q2)
        v == validateResponseBody(s1, in.prsb)
        w == EngineCall(q2, "WriteResponseBody", in.wr, "")
    IN  IF EncodeDataSkips(s)
        THEN Result(q1, Continue)
        ELSE IF s.wasInterrupted
        THEN Result(SendLocalReply(q1, Encoder, StatusForbidden, EmptyBody, ""), LocalReply)
        ELSE IF ~s.tx.responseBodyAccess
        THEN IF v.err # NoError
             THEN Result(logError(v.s, v.err), LocalReply)
             ELSE Result(v.s, Continue)
        ELSE IF Len(s.buffer) > 0
        THEN IF in.wr.err
             THEN Result(SendLocalReply(logError(w, "Failed to write response body"), Encoder,
                                        StatusInternalServerError, EmptyBody, ""), LocalReply)
             ELSE IF in.wr.status # 0
             THEN Result(handleInterruption(w, PhaseResponseBody, in.wr.status), LocalReply)
             ELSE IF in.endStream THEN EncodeDataEndOfStream(w, in)
             ELSE Result(w, Continue)
        ELSE IF in.endStream THEN EncodeDataEndOfStream(q2, in)
        ELSE Result(q2, Continue)

\* an OnDestroy that leaves the Transaction open
OnDestroyFn_KeepsOpen(s, in) == Result(s, NoStatus)

\* an OnDestroy that enforces the Interruption of its ProcessResponseBody
OnDestroyFn_Enforcing(s, in) ==
    LET s1 == [s EXCEPT !.wasResponseBodyProcessed = TRUE]
        c == EngineCall(s1, "ProcessResponseBody", in.prsb, "")
        s2 == IF s.wasResponseBodyProcessed THEN s
              ELSE IF in.prsb.err THEN logError(c, "failed to process response body in OnDestroy")
              ELSE IF in.prsb.status # 0
              THEN handleInterruption(c, PhaseResponseBody, in.prsb.status)
              ELSE c
        s3 == EngineCall(s2, "ProcessLogging", Ok, "")
        s4 == EngineCall([s3 EXCEPT !.tx.closed = TRUE], "Close", Ok, "")
    IN  IF s.tx.nil
        THEN Result(s, NoStatus)
        ELSE Result(logInfo(s4, "Transaction finished"), NoStatus)

\* OnDestroy: the finalize-and-log sequence
OnDestroyFn(s, in) ==
    LET s1 == [s EXCEPT !.wasResponseBodyProcessed = TRUE]
        c == EngineCall(s1, "ProcessResponseBody", in.prsb, "")
        s2 == IF s.wasResponseBodyProcessed THEN s
              ELSE IF in.prsb.err THEN logError(c, "failed to process response body in OnDestroy")
              ELSE c
        s3 == EngineCall(s2, "ProcessLogging", Ok, "")
        s4 == EngineCall([s3 EXCEPT !.tx.closed = TRUE], "Close", Ok, "")
    IN  IF s.tx.nil
        THEN Result(s, NoStatus)
        ELSE Result(logInfo(s4, "Transaction finished"), NoStatus)

(***************************************************************************)
(* State                                                                   *)
(***************************************************************************)
VARIABLES
    \* the fields of the Filter
    tx, wasInterrupted, wasRequestBodyProcessed, wasResponseBodyProcessed,
    wasResponseBodyProcessedWithNoBody, httpProtocol, connection,
    \* the host: where the exchange stands and how many chunks were delivered
    stage, reqChunks, respChunks,
    \* the last event: its name, its endStream flag, whether the request
    \* headers were delivered, the Host handed to the event (empty for the
    \* events without one) and whether the request came without a Host,
    \* the filter fields on entry, the chunk buffer on return, the calls made
    \* in order and the status returned
    event, endStream, decoded, host, hostMissing, pre, buffer, calls, ret,
    \* the exchange so far: calls per operation (0, 1 or 2 for more), and the
    \* engine operation
    \* whose Interruption handleInterruption acted on
    \* and whether IsRuleEngineOff() returned true in the request-headers event
    n, interruption, offAtHeaders,
    \* whether a request-side event has returned Continue
    released,
    \* the header map of the last event (empty for the events without one, and
    \* for a handler that returns before reading it), and whether the request
    \* headers carried the Upgrade: websocket / Connection: upgrade pair
    headers, asked,
    \* the protocol handed to ProcessURI in the exchange ("" before the call)
    uriProtocol,
    \* the Configuration every filter instance shares, the struct it is
    \* parsed from and how far the parsing is ("raw", "accepted", "rejected")
    config, raw, loaded,
    \* two streams handled side by side: the filter instances the factory
    \* made, and for each exchange where it stands, what its last event
    \* returned and called, and the same for the exchange run on its own
    filters, exchange,
    \* the package-level logFormat of the config package, the Configurations
    \* Parse has returned in this process, in order, and the last line the
    \* engine's error callback wrote
    logFormat, configs, ruleLine,
    \* the Logger of a filter instance and the last line it returned
    Logger, logLine

vars == << tx, wasInterrupted, wasRequestBodyProcessed, wasResponseBodyProcessed,
           wasResponseBodyProcessedWithNoBody, httpProtocol, connection,
           stage, reqChunks, respChunks, event, endStream, decoded, host, hostMissing, pre,
           buffer,
           calls, ret, n, interruption, offAtHeaders, released, headers, asked, uriProtocol,
           config, raw, loaded, filters, exchange,
           logFormat, configs, ruleLine, Logger, logLine >>

\* the state of the logging
logging == << logFormat, configs, ruleLine, Logger, logLine >>

\* the operations counted over the exchange
Ops == { "NewTransactionWithID", "ProcessConnection", "ProcessURI", "ProcessRequestHeaders",
         "WriteRequestBody", "ProcessRequestBody", "ProcessResponseHeaders",
         "WriteResponseBody", "ProcessResponseBody", "ProcessLogging", "Close",
         "SendLocalReply" }

\* the Filter as the handlers see it
Filter ==
    [tx |-> tx, wasInterrupted |-> wasInterrupted,
     wasRequestBodyProcessed |-> wasRequestBodyProcessed,
     wasResponseBodyProcessed |-> wasResponseBodyProcessed,
     wasResponseBodyProcessedWithNoBody |-> wasResponseBodyProcessedWithNoBody,
     httpProtocol |-> httpProtocol, connection |-> connection]

\* the filter at the entry of a handler that is handed the chunk buf
Entry(buf) ==
    [tx |-> tx, wasInterrupted |-> wasInterrupted,
     wasRequestBodyProcessed |-> wasRequestBodyProcessed,
     wasResponseBodyProcessed |-> wasResponseBodyProcessed,
     wasResponseBodyProcessedWithNoBody |-> wasResponseBodyProcessedWithNoBody,
     httpProtocol |-> httpProtocol, connection |-> connection,
     Config |-> config, buffer |-> buf, calls |-> << >>]

\* each stream gets a filter of its own from the factory
Exchanges == {1, 2}

\* a factory that hands every stream the same filter
FilterOf_Shared(i) == 1

FilterOf(i) == i

\* the fields of a filter the factory has just made
NewFilter ==
    [tx |-> NilTx, wasInterrupted |-> FALSE, wasRequestBodyProcessed |-> FALSE,
     wasResponseBodyProcessed |-> FALSE, wasResponseBodyProcessedWithNoBody |-> FALSE,
     httpProtocol |-> "", connection |-> connectionStateHTTP]

\* the fields a handler leaves behind
Fields(s) ==
    [tx |-> s.tx, wasInterrupted |-> s.wasInterrupted,
     wasRequestBodyProcessed |-> s.wasRequestBodyProcessed,
     wasResponseBodyProcessed |-> s.wasResponseBodyProcessed,
     wasResponseBodyProcessedWithNoBody |-> s.wasResponseBodyProcessedWithNoBody,
     httpProtocol |-> s.httpProtocol, connection |-> s.connection]

\* the filter f at the entry of a handler, with the Configuration it reads
EntryOf(f, Config, buf) ==
    [tx |-> f.tx, wasInterrupted |-> f.wasInterrupted,
     wasRequestBodyProcessed |-> f.wasRequestBodyProcessed,
     wasResponseBodyProcessed |-> f.wasResponseBodyProcessed,
     wasResponseBodyProcessedWithNoBody |-> f.wasResponseBodyProcessedWithNoBody,
     httpProtocol |-> f.httpProtocol, connection |-> f.connection,
     Config |-> Config, buffer |-> buf, calls |-> << >>]

NewExchange ==
    [stage |-> "new", reqChunks |-> 0, respChunks |-> 0, ret |-> NoStatus, calls |-> << >>,
     alone |-> NewFilter, aloneRet |-> NoStatus, aloneCalls |-> << >>]

CountOp(cs, op) == Cardinality({i \in 1..Len(cs) : cs[i].op = op})

\* the calls of an operation over the exchange are told apart as none, one
\* and more than one (2)
Tally(k) == IF k > 1 THEN 2 ELSE k

NoInterruption == [op |-> "", status |-> 0]

\* the engine call right before handleInterruption's log line
HandledInterruption(cs) ==
    IF \E i \in 2..Len(cs) : cs[i].op = "Log" /\ cs[i].arg = "Transaction interrupted"
    THEN LET i == CHOOSE j \in 2..Len(cs) : cs[j].op = "Log" /\ cs[j].arg = "Transaction interrupted"
         IN  [op |-> cs[i - 1].op, status |-> cs[i - 1].status]
    ELSE NoInterruption

\* What the engine can return from operation op in a handler: quiet is the
\* run of the handler in which every operation returns nothing, so op is
\* invoked if it is invoked there and every operation before it returned
\* nothing (a handler returns right after an Interruption or an error).
Returns(quiet, op, outcomes, reached) ==
    IF reached /\ CountOp(quiet.s.calls, op) > 0 THEN outcomes ELSE {Ok}

\* The header maps a handler can be handed: probe is its run on the empty
\* map, and a handler that does not get to op does not read the map.
Reads(probe, op, maps) ==
    IF CountOp(probe.s.calls, op) > 0 THEN maps ELSE { << >> }

\* the operations whose return value the handlers look at
ReturningOps == { "ProcessRequestHeaders", "WriteRequestBody", "ProcessRequestBody",
                  "ProcessResponseHeaders", "WriteResponseBody", "ProcessResponseBody" }

\* the effect of one event on the filter and on what is observed of it
Deliver(ev, es, r) ==
    /\ tx' = r.s.tx
    /\ wasInterrupted' = r.s.wasInterrupted
    /\ wasRequestBodyProcessed' = r.s.wasRequestBodyProcessed
    /\ wasResponseBodyProcessed' = r.s.wasResponseBodyProcessed
    /\ wasResponseBodyProcessedWithNoBody' = r.s.wasResponseBodyProcessedWithNoBody
    /\ httpProtocol' = r.s.httpProtocol
    /\ connection' = r.s.connection
    /\ event' = ev
    /\ endStream' = es
    /\ pre' = Filter
    /\ buffer' = r.s.buffer
    /\ calls' = r.s.calls
    /\ ret' = r.ret
    /\ n' = [op \in Ops |-> Tally(n[op] + CountOp(r.s.calls, op))]
    /\ interruption' = IF interruption = NoInterruption
                       THEN HandledInterruption(r.s.calls) ELSE interruption
    /\ released' = (released \/ (ev \in {"DecodeHeaders", "DecodeData"} /\ r.ret = Continue))
    /\ uriProtocol' = IF CountOp(r.s.calls, "ProcessURI") > 0
                      THEN r.s.calls[CHOOSE i \in 1..Len(r.s.calls) :
                                        r.s.calls[i].op = "ProcessURI"].arg
                      ELSE uriProtocol
    /\ config' = r.s.Config
    /\ UNCHANGED << filters, exchange, raw, loaded >>
    /\ UNCHANGED logging

Init ==
    /\ tx = NilTx
    /\ wasInterrupted = FALSE
    /\ wasRequestBodyProcessed = FALSE
    /\ wasResponseBodyProcessed = FALSE
    /\ wasResponseBodyProcessedWithNoBody = FALSE
    /\ httpProtocol = ""
    /\ connection = connectionStateHTTP
    /\ stage = "new"
    /\ reqChunks = 0
    /\ respChunks = 0
    /\ event = "none"
    /\ endStream = FALSE
    /\ decoded = FALSE
    /\ host = EmptyString
    /\ hostMissing = FALSE
    /\ pre = [tx |-> NilTx, wasInterrupted |-> FALSE, wasRequestBodyProcessed |-> FALSE,
              wasResponseBodyProcessed |-> FALSE,
              wasResponseBodyProcessedWithNoBody |-> FALSE,
              httpProtocol |-> "", connection |-> connectionStateHTTP]
    /\ buffer = << >>
    /\ calls = << >>
    /\ ret = NoStatus
    /\ n = [op \in Ops |-> 0]
    /\ interruption = NoInterruption
    /\ offAtHeaders = FALSE
    /\ released = FALSE
    /\ headers = << >>
    /\ asked = FALSE
    /\ uriProtocol = ""
    /\ config = Configuration
    /\ raw = ConfigurationSource
    /\ loaded = "accepted"
    /\ logFormat = Plain
    /\ configs = << Configuration >>
    /\ ruleLine = NoLine
    /\ Logger = NoLogger
    /\ logLine = NoLine
    /\ filters = << >>
    /\ exchange = << >>

(***************************************************************************)
(* The events, in the order the host delivers them                         *)
(***************************************************************************)
DecodeHeaders ==
    /\ stage = "new"
    /\ \E h \in Hosts, hm \in HeaderMaps, es \in BOOLEAN, remote \in Addrs, local \in Addrs,
          protocolOk \in BOOLEAN, protocol \in Protocols, cfg \in TxSettings :
          \E quiet \in { DecodeHeadersFn(Entry(<< >>),
                      [host |-> h, headers |-> hm, endStream |-> es, remote |-> remote,
                       local |-> local, protocolOk |-> protocolOk, protocol |-> protocol,
                       cfg |-> cfg, prh |-> Ok, prb |-> Ok]) } :
          \E prh \in Returns(quiet, "ProcessRequestHeaders", HeaderOutcomes, TRUE) :
          \E prb \in Returns(quiet, "ProcessRequestBody", Outcomes, prh = Ok) :
          \E r \in { DecodeHeadersFn(Entry(<< >>),
                      [host |-> h, headers |-> hm, endStream |-> es, remote |-> remote,
                       local |-> local, protocolOk |-> protocolOk, protocol |-> protocol,
                       cfg |-> cfg, prh |-> prh, prb |-> prb]) } :
              /\ Deliver("DecodeHeaders", es, r)
              /\ host' = h
              /\ hostMissing' = (Len(h) = 0)
              /\ decoded' = TRUE
              /\ headers' = hm
              /\ asked' = (HasUpgradeWebsocket(hm) /\ HasConnectionUpgrade(hm))
              /\ offAtHeaders' = (CountOp(r.s.calls, "IsRuleEngineOff") > 0 /\ r.s.tx.ruleEngineOff)
              /\ stage' = IF es THEN "requestEnd" ELSE "request"
    /\ UNCHANGED << reqChunks, respChunks >>

DecodeData ==
    /\ stage = "request"
    /\ reqChunks < MaxChunks
    /\ \E buf \in Buffers, es \in BOOLEAN :
          \E quiet \in { DecodeDataFn(Entry(buf), [endStream |-> es, wr |-> Ok, prb |-> Ok]) } :
          \E wr \in Returns(quiet, "WriteRequestBody", Outcomes, TRUE) :
          \E prb \in Returns(quiet, "ProcessRequestBody", Outcomes, wr = Ok) :
          \E r \in { DecodeDataFn(Entry(buf), [endStream |-> es, wr |-> wr, prb |-> prb]) } :
              /\ Deliver("DecodeData", es, r)
              /\ stage' = IF es THEN "requestEnd" ELSE "request"
    /\ reqChunks' = reqChunks + 1
    /\ headers' = << >>
    /\ host' = EmptyString
    /\ UNCHANGED << respChunks, decoded, hostMissing, offAtHeaders, asked >>

EncodeHeaders ==
    /\ stage \in {"new", "request", "requestEnd"}
    /\ \E es \in BOOLEAN :
          \E probe \in { EncodeHeadersFn(Entry(<< >>),
                      [headers |-> << >>, endStream |-> es, prb |-> Ok, prh |-> Ok,
                       prsb |-> Ok]) } :
          \E hm \in Reads(probe, "ProcessResponseHeaders", HeaderMaps) :
          \E quiet \in { EncodeHeadersFn(Entry(<< >>),
                      [headers |-> hm, endStream |-> es, prb |-> Ok, prh |-> Ok,
                       prsb |-> Ok]) } :
          \E prb \in Returns(quiet, "ProcessRequestBody", Outcomes, TRUE) :
          \E prh \in Returns(quiet, "ProcessResponseHeaders", HeaderOutcomes, prb = Ok) :
          \E prsb \in Returns(quiet, "ProcessResponseBody", Outcomes, prb = Ok /\ prh = Ok) :
          \E r \in { EncodeHeadersFn(Entry(<< >>),
                      [headers |-> hm, endStream |-> es, prb |-> prb, prh |-> prh,
                       prsb |-> prsb]) } :
              /\ Deliver("EncodeHeaders", es, r)
              /\ headers' = hm
              /\ stage' = IF es THEN "responseEnd" ELSE "response"
    /\ host' = EmptyString
    /\ UNCHANGED << reqChunks, respChunks, decoded, hostMissing, offAtHeaders, asked >>

EncodeData ==
    /\ stage = "response"
    /\ respChunks < MaxChunks
    /\ \E buf \in Buffers, es \in BOOLEAN :
          \E quiet \in { EncodeDataFn(Entry(buf), [endStream |-> es, wr |-> Ok, prsb |-> Ok]) } :
          \E wr \in Returns(quiet, "WriteResponseBody", Outcomes, TRUE) :
          \E prsb \in Returns(quiet, "ProcessResponseBody", Outcomes, wr = Ok) :
          \E r \in { EncodeDataFn(Entry(buf), [endStream |-> es, wr |-> wr, prsb |-> prsb]) } :
              /\ Deliver("EncodeData", es, r)
              /\ stage' = IF es THEN "responseEnd" ELSE "response"
    /\ respChunks' = respChunks + 1
    /\ headers' = << >>
    /\ host' = EmptyString
    /\ UNCHANGED << reqChunks, decoded, hostMissing, offAtHeaders, asked >>

OnDestroy ==
    /\ stage # "destroyed"
    /\ \E quiet \in { OnDestroyFn(Entry(<< >>), [prsb |-> Ok]) } :
       \E prsb \in Returns(quiet, "ProcessResponseBody", Outcomes, TRUE) :
       \E r \in { OnDestroyFn(Entry(<< >>), [prsb |-> prsb]) } :
          Deliver("OnDestroy", FALSE, r)
    /\ stage' = "destroyed"
    /\ headers' = << >>
    /\ host' = EmptyString
    /\ UNCHANGED << reqChunks, respChunks, decoded, hostMissing, offAtHeaders, asked >>

Next ==
    \/ DecodeHeaders
    \/ DecodeData
    \/ EncodeHeaders
    \/ EncodeData
    \/ OnDestroy

Spec == Init /\ [][Next]_vars

\* the host tears every stream down: OnDestroy is delivered in the end
FairSpec == Spec /\ WF_vars(OnDestroy)

(***************************************************************************)
(* Two exchanges side by side.  The events of each come in the order of    *)
(* the host, those of the two in any order; run(f, Config) is the handler  *)
(* of the event with its inputs, and it is run on the filter of the stream *)
(* with the shared Configuration and, for comparison, on the filter of the *)
(* exchange run on its own with the Configuration as loaded.               *)
(***************************************************************************)
\* the hosts of the two streams select different WAFs
PairHosts == { <<"h">>, <<"h", ":", "8">> }
PairAddr == <<"1", ":", "8">>
PairSettings == [ruleEngineOff |-> FALSE, requestBodyAccess |-> TRUE, responseBodyAccess |-> TRUE]
PairOutcomes == {o \in Outcomes : ~o.err}

\* r is what the handler did on the filter of stream i, a what it did on
\* the filter of the exchange run on its own
Handle(i, stg, dReq, dResp, r, a) ==
    /\ filters' = [filters EXCEPT ![FilterOf(i)] = Fields(r.s)]
    /\ config' = r.s.Config
    /\ exchange' = [exchange EXCEPT ![i] =
           [stage |-> stg, reqChunks |-> @.reqChunks + dReq,
            respChunks |-> @.respChunks + dResp,
            ret |-> r.ret, calls |-> r.s.calls,
            alone |-> Fields(a.s), aloneRet |-> a.ret, aloneCalls |-> a.s.calls]]
    /\ UNCHANGED << tx, wasInterrupted, wasRequestBodyProcessed, wasResponseBodyProcessed,
                    wasResponseBodyProcessedWithNoBody, httpProtocol, connection,
                    stage, reqChunks, respChunks, event, endStream, decoded, host, hostMissing, pre,
                    buffer, calls, ret, n, interruption, offAtHeaders, released,
                    headers, asked, uriProtocol, raw, loaded >>
    /\ UNCHANGED logging

ExchangeDecodeHeaders ==
    \E i \in Exchanges, h \in PairHosts, es \in BOOLEAN, prh \in PairOutcomes :
        /\ exchange[i].stage = "new"
        /\ LET run(f, Config) ==
                   DecodeHeadersFn(EntryOf(f, Config, << >>),
                       [host |-> h, headers |-> << >>, endStream |-> es, remote |-> PairAddr,
                        local |-> PairAddr, protocolOk |-> TRUE, protocol |-> "HTTP/1.1",
                        cfg |-> PairSettings, prh |-> prh, prb |-> Ok])
           IN  Handle(i, IF es THEN "requestEnd" ELSE "request", 0, 0,
                      run(filters[FilterOf(i)], config), run(exchange[i].alone, Configuration))

ExchangeDecodeData ==
    \E i \in Exchanges, buf \in Buffers, es \in BOOLEAN, wr \in PairOutcomes :
        /\ exchange[i].stage = "request"
        /\ exchange[i].reqChunks < MaxChunks
        /\ LET run(f, Config) ==
                   DecodeDataFn(EntryOf(f, Config, buf), [endStream |-> es, wr |-> wr, prb |-> Ok])
           IN  Handle(i, IF es THEN "requestEnd" ELSE "request", 1, 0,
                      run(filters[FilterOf(i)], config), run(exchange[i].alone, Configuration))

ExchangeEncodeHeaders ==
    \E i \in Exchanges, es \in BOOLEAN, prh \in PairOutcomes :
        /\ exchange[i].stage \in {"request", "requestEnd"}
        /\ LET run(f, Config) ==
                   EncodeHeadersFn(EntryOf(f, Config, << >>),
                       [headers |-> << >>, endStream |-> es, prb |-> Ok, prh |-> prh,
                        prsb |-> Ok])
           IN  Handle(i, IF es THEN "responseEnd" ELSE "response", 0, 0,
                      run(filters[FilterOf(i)], config), run(exchange[i].alone, Configuration))

ExchangeEncodeData ==
    \E i \in Exchanges, buf \in Buffers, es \in BOOLEAN :
        /\ exchange[i].stage = "response"
        /\ exchange[i].respChunks < MaxChunks
        /\ LET run(f, Config) ==
                   EncodeDataFn(EntryOf(f, Config, buf), [endStream |-> es, wr |-> Ok, prsb |-> Ok])
           IN  Handle(i, IF es THEN "responseEnd" ELSE "response", 0, 1,
                      run(filters[FilterOf(i)], config), run(exchange[i].alone, Configuration))

ExchangeOnDestroy ==
    \E i \in Exchanges :
        /\ exchange[i].stage \notin {"new", "destroyed"}
        /\ LET run(f, Config) == OnDestroyFn(EntryOf(f, Config, << >>), [prsb |-> Ok])
           IN  Handle(i, "destroyed", 0, 0,
                      run(filters[FilterOf(i)], config), run(exchange[i].alone, Configuration))

PairNext ==
    \/ ExchangeDecodeHeaders
    \/ ExchangeDecodeData
    \/ ExchangeEncodeHeaders
    \/ ExchangeEncodeData
    \/ ExchangeOnDestroy

\* the factory has made a filter for each of the two streams
PairInit ==
    /\ tx = NilTx
    /\ wasInterrupted = FALSE
    /\ wasRequestBodyProcessed = FALSE
    /\ wasResponseBodyProcessed = FALSE
    /\ wasResponseBodyProcessedWithNoBody = FALSE
    /\ httpProtocol = ""
    /\ connection = connectionStateHTTP
    /\ stage = "new"
    /\ reqChunks = 0
    /\ respChunks = 0
    /\ event = "none"
    /\ endStream = FALSE
    /\ decoded = FALSE
    /\ host = EmptyString
    /\ hostMissing = FALSE
    /\ pre = NewFilter
    /\ buffer = << >>
    /\ calls = << >>
    /\ ret = NoStatus
    /\ n = [op \in Ops |-> 0]
    /\ interruption = NoInterruption
    /\ offAtHeaders = FALSE
    /\ released = FALSE
    /\ headers = << >>
    /\ asked = FALSE
    /\ uriProtocol = ""
    /\ config = Configuration
    /\ raw = ConfigurationSource
    /\ loaded = "accepted"
    /\ logFormat = Plain
    /\ configs = << Configuration >>
    /\ ruleLine = NoLine
    /\ Logger = NoLogger
    /\ logLine = NoLine
    /\ filters = [k \in Exchanges |-> NewFilter]
    /\ exchange = [i \in Exchanges |-> NewExchange]

PairSpec == PairInit /\ [][PairNext]_vars

(***************************************************************************)
(* Loading and routing.  The proxy hands Parse a configuration struct; of  *)
(* an accepted Configuration the factory makes the filter of a stream,     *)
(* whose request-headers event creates the Transaction.                    *)
(***************************************************************************)
ParseConfiguration ==
    /\ loaded = "raw"
    /\ config' = Parse(raw).config
    /\ loaded' = IF Parse(raw).err = NoError THEN "accepted" ELSE "rejected"
    /\ UNCHANGED << tx, wasInterrupted, wasRequestBodyProcessed, wasResponseBodyProcessed,
                    wasResponseBodyProcessedWithNoBody, httpProtocol, connection,
                    stage, reqChunks, respChunks, event, endStream, decoded, host, hostMissing, pre,
                    buffer, calls, ret, n, interruption, offAtHeaders, released,
                    headers, asked, uriProtocol, raw, filters, exchange >>
    /\ logFormat' = ParseLogFormat(raw, logFormat)
    /\ UNCHANGED << configs, ruleLine, Logger, logLine >>

CreateTransaction ==
    /\ loaded = "accepted"
    /\ stage = "new"
    /\ \E h \in Hosts, hm \in HeaderMaps, es \in BOOLEAN :
          \E r \in { DecodeHeadersFn(Entry(<< >>),
                      [host |-> h, headers |-> hm, endStream |-> es, remote |-> PairAddr,
                       local |-> PairAddr, protocolOk |-> TRUE, protocol |-> "HTTP/1.1",
                       cfg |-> PairSettings, prh |-> Ok, prb |-> Ok]) } :
              /\ Deliver("DecodeHeaders", es, r)
              /\ host' = h
              /\ hostMissing' = (Len(h) = 0)
              /\ decoded' = TRUE
              /\ headers' = hm
              /\ asked' = (HasUpgradeWebsocket(hm) /\ HasConnectionUpgrade(hm))
              /\ offAtHeaders' = FALSE
              /\ stage' = IF es THEN "requestEnd" ELSE "request"
    /\ UNCHANGED << reqChunks, respChunks >>

ConfigNext ==
    \/ ParseConfiguration
    \/ CreateTransaction

\* the proxy can hand over any struct
ConfigInit ==
    /\ tx = NilTx
    /\ wasInterrupted = FALSE
    /\ wasRequestBodyProcessed = FALSE
    /\ wasResponseBodyProcessed = FALSE
    /\ wasResponseBodyProcessedWithNoBody = FALSE
    /\ httpProtocol = ""
    /\ connection = connectionStateHTTP
    /\ stage = "new"
    /\ reqChunks = 0
    /\ respChunks = 0
    /\ event = "none"
    /\ endStream = FALSE
    /\ decoded = FALSE
    /\ host = EmptyString
    /\ hostMissing = FALSE
    /\ pre = NewFilter
    /\ buffer = << >>
    /\ calls = << >>
    /\ ret = NoStatus
    /\ n = [op \in Ops |-> 0]
    /\ interruption = NoInterruption
    /\ offAtHeaders = FALSE
    /\ released = FALSE
    /\ headers = << >>
    /\ asked = FALSE
    /\ uriProtocol = ""
    /\ config = NoConfiguration
    /\ raw \in TypedStructs
    /\ loaded = "raw"
    /\ logFormat = EmptyString
    /\ configs = << >>
    /\ ruleLine = NoLine
    /\ Logger = NoLogger
    /\ logLine = NoLine
    /\ filters = << >>
    /\ exchange = << >>

ConfigSpec == ConfigInit /\ [][ConfigNext]_vars

(***************************************************************************)
(* Reloading.  The proxy can hand Parse one configuration after another in *)
(* the same process; every WAF Parse builds is given errorCallback, which  *)
(* the engine calls with each rule a transaction of that WAF matches.      *)
(***************************************************************************)
MaxConfigurations == 2

\* the structs handed over: the one above with any log_format and default
ReloadStructs ==
    { [ConfigurationSource EXCEPT !.log_format = lf, !.default_directive = dd] :
        lf \in LogFormatFields, dd \in DefaultDirectiveFields }

RuleSeverities ==
    { "emergency", "alert", "critical", "error", "warning", "notice", "info", "debug" }

\* the transaction id is the request id of the stream, or the engine's own
TransactionIDs == { "9f1c2d3e-uuid", "AbCdEfGh" }
UuidValid(id) == id = "9f1c2d3e-uuid"

\* errorCallback: the proxy log level a severity is written at
SeverityLevel(severity) ==
    CASE severity \in {"emergency", "alert", "critical"} -> "critical"
      [] severity = "error" -> "error"
      [] severity = "warning" -> "warn"
      [] OTHER -> "info"

\* errorCallback: the line written for a rule matched by a transaction of
\* the WAF built by the waf-th Parse
errorCallback(error) ==
    [waf |-> error.waf,
     format |-> IF logFormat = Json THEN Json ELSE Plain,
     level |-> SeverityLevel(error.severity),
     requestId |-> IF UuidValid(error.transactionID) THEN error.transactionID ELSE ""]

\* what the reloading and the logging leave alone
handled == << tx, wasInterrupted, wasRequestBodyProcessed, wasResponseBodyProcessed,
              wasResponseBodyProcessedWithNoBody, httpProtocol, connection,
              stage, reqChunks, respChunks, event, endStream, decoded, host, hostMissing,
              pre, buffer, calls, ret, n, interruption, offAtHeaders, released,
              headers, asked, uriProtocol, filters, exchange >>

ReloadConfiguration ==
    /\ Len(configs) < MaxConfigurations
    /\ \E v \in ReloadStructs :
          /\ raw' = v
          /\ config' = Parse(v).config
          /\ loaded' = IF Parse(v).err = NoError THEN "accepted" ELSE "rejected"
          /\ logFormat' = ParseLogFormat(v, logFormat)
          /\ configs' = IF Parse(v).err = NoError
                        THEN Append(configs, Parse(v).config) ELSE configs
    /\ UNCHANGED << handled, ruleLine, Logger, logLine >>

MatchedRule ==
    /\ \E i \in 1..Len(configs), severity \in RuleSeverities, id \in TransactionIDs :
          ruleLine' = errorCallback([waf |-> i, severity |-> severity, transactionID |-> id])
    /\ UNCHANGED << handled, config, raw, loaded, logFormat, configs, Logger, logLine >>

ReloadNext ==
    \/ ReloadConfiguration
    \/ MatchedRule

\* a process that has parsed nothing yet
ReloadInit ==
    /\ tx = NilTx
    /\ wasInterrupted = FALSE
    /\ wasRequestBodyProcessed = FALSE
    /\ wasResponseBodyProcessed = FALSE
    /\ wasResponseBodyProcessedWithNoBody = FALSE
    /\ httpProtocol = ""
    /\ connection = connectionStateHTTP
    /\ stage = "new"
    /\ reqChunks = 0
    /\ respChunks = 0
    /\ event = "none"
    /\ endStream = FALSE
    /\ decoded = FALSE
    /\ host = EmptyString
    /\ hostMissing = FALSE
    /\ pre = NewFilter
    /\ buffer = << >>
    /\ calls = << >>
    /\ ret = NoStatus
    /\ n = [op \in Ops |-> 0]
    /\ interruption = NoInterruption
    /\ offAtHeaders = FALSE
    /\ released = FALSE
    /\ headers = << >>
    /\ asked = FALSE
    /\ uriProtocol = ""
    /\ config = NoConfiguration
    /\ raw = ConfigurationSource
    /\ loaded = "raw"
    /\ filters = << >>
    /\ exchange = << >>
    /\ logFormat = EmptyString
    /\ configs = << >>
    /\ ruleLine = NoLine
    /\ Logger = NoLogger
    /\ logLine = NoLine

ReloadSpec == ReloadInit /\ [][ReloadNext]_vars

(***************************************************************************)
(* The logger.  filterFactory builds one BasicLogMessage for the filter of *)
(* a stream; every log helper of the filter hands its parts to Log of that *)
(* one value and writes the string it returns at the helper's level.  buff *)
(* is modelled as the sequence of the key="value" pieces appended to it,   *)
(* data as the map it is.                                                  *)
(***************************************************************************)
MaxLogCalls == 2

BuildLoggerMessage(logformat) == [buff |-> << >>, data |-> << >>, format |-> logformat]

\* the parts a log helper can be handed
Msg(v) == [kind |-> "string", K |-> "msg", V |-> v]
Err(e) == [kind |-> "error", K |-> "error", V |-> e]
KV(k, v) == [kind |-> "struct", K |-> k, V |-> v]
NilError == ""

\* msg, err and str: a piece appended to buff, a key set in data
Put(d, key, val) ==
    [d EXCEPT !.buff = Append(@, << key, val >>),
              !.data = [k \in DOMAIN @ \cup {key} |-> IF k = key THEN val ELSE @[k]]]

msg(d, v) == Put(d, "msg", v)
str(d, key, val) == Put(d, key, val)
err(d, e) == IF e = NilError THEN d ELSE Put(d, "error", e)

output(d) == IF d.format = Json THEN d.data ELSE d.buff

\* Log: the parts are applied left to right to the BasicLogMessage itself
RECURSIVE ApplyOpts(_, _)
ApplyOpts(d, opts) ==
    IF opts = << >> THEN d
    ELSE LET o == Head(opts)
             d1 == CASE o.kind = "string" -> msg(d, o.V)
                     [] o.kind = "error" -> err(d, o.V)
                     [] OTHER -> str(d, o.K, o.V)
         IN  ApplyOpts(d1, Tail(opts))

Log(d, opts) == [d |-> ApplyOpts(d, opts), line |-> output(ApplyOpts(d, opts))]

\* the calls of the filter's log helpers: their level and their parts
LogLevels == { "trace", "debug", "info", "warn", "error", "critical" }
LogParts ==
    { << Msg("Buffering request body data") >>,
      << Msg("Failed to write request body"), Err("write error") >>,
      << Msg("Processing incoming request data"), KV("size", "0") >>,
      << Err("found interruption") >> }

\* the Configurations a filter can be made of
LoggedConfigurations == { Configuration, [Configuration EXCEPT !.LogFormat = Json] }

\* the log calls made so far on the filter's Logger
LogCalls == IF logLine = NoLine THEN 0 ELSE logLine.call

filterFactory ==
    /\ Logger = NoLogger
    /\ \E c \in LoggedConfigurations :
          /\ config' = c
          /\ Logger' = BuildLoggerMessage(c.LogFormat)
    /\ UNCHANGED << handled, raw, loaded, logFormat, configs, ruleLine, logLine >>

\* logTrace .. logCritical
FilterLog ==
    /\ Logger # NoLogger
    /\ LogCalls < MaxLogCalls
    /\ \E level \in LogLevels, parts \in LogParts :
          /\ Logger' = Log(Logger, parts).d
          /\ logLine' = [level |-> level, call |-> LogCalls + 1, parts |-> parts,
                         before |-> Logger, format |-> Logger.format,
                         line |-> Log(Logger, parts).line]
    /\ UNCHANGED << handled, config, raw, loaded, logFormat, configs, ruleLine >>

LogNext ==
    \/ filterFactory
    \/ FilterLog

LogSpec == Init /\ [][LogNext]_vars

\* a handler makes no returning engine call after one that returned an
\* Interruption or an error
StopsAtFirstVerdict ==
    \A i \in 1..Len(calls) : \A j \in 1..Len(calls) :
        (/\ i < j
         /\ calls[i].op \in ReturningOps
         /\ (calls[i].status # 0 \/ calls[i].err))
        => calls[j].op \notin ReturningOps

TypeOK ==
    /\ wasInterrupted \in BOOLEAN
    /\ connection \in {connectionStateHTTP, connectionStateUpgradeWebsocketRequested,
                       connectionStateWebsocketConnection}
    /\ ret \in {Continue, StopAndBuffer, StopAndBufferWatermark, LocalReply, Panic, NoStatus}
    /\ reqChunks \in 0..MaxChunks
    /\ respChunks \in 0..MaxChunks

(***************************************************************************)
(* Vocabulary of the properties                                            *)
(***************************************************************************)
Finalizers == { "ProcessRequestHeaders", "ProcessRequestBody", "ProcessResponseHeaders",
                "ProcessResponseBody" }

\* the operations that feed the engine or run one of its phases
EvaluationOps == { "ProcessConnection", "ProcessURI", "AddRequestHeader", "AddResponseHeader",
                   "WriteRequestBody", "WriteResponseBody", "ProcessRequestHeaders",
                   "ProcessResponseHeaders", "ProcessRequestBody", "ProcessResponseBody" }

\* every operation that changes the Transaction
MutatingOps == EvaluationOps \cup { "NewTransactionWithID", "SetServerName", "ProcessLogging",
                                    "Close" }

RequestPhaseOps == { "ProcessRequestHeaders", "WriteRequestBody", "ProcessRequestBody" }
ResponsePhaseOps == { "ProcessResponseHeaders", "WriteResponseBody", "ProcessResponseBody" }

RequestEvents == { "DecodeHeaders", "DecodeData" }
ResponseEvents == { "EncodeHeaders", "EncodeData" }
ChunkEvents == { "DecodeData", "EncodeData" }

\* positions in the calls of the last event
Made(ops) == {i \in 1..Len(calls) : calls[i].op \in ops}
Replies == Made({"SendLocalReply"})
RepliesOn(dir) == {i \in Replies : calls[i].dir = dir}
\* the engine calls of the last event that returned an Interruption
Interrupting(ops) == {i \in Made(ops) : calls[i].status # 0}
\* the engine calls of the last event that returned an error
Failing(ops) == {i \in Made(ops) : calls[i].err}
\* the operations of the last event in order, log lines left out
OpsInOrder == LET keep(c) == c.op # "Log" IN [i \in 1..Len(SelectSeq(calls, keep)) |->
                                               SelectSeq(calls, keep)[i].op]

(***************************************************************************)
(* C1: each of ProcessRequestHeaders, ProcessRequestBody,                  *)
(* ProcessResponseHeaders and ProcessResponseBody is invoked exactly once  *)
(* per exchange, whatever the number of chunk events: none of them is ever *)
(* invoked a second time, and an exchange that ran both header phases and  *)
(* was never answered locally has invoked each of them when teardown ends. *)
(***************************************************************************)
C1_FinalizersExactlyOnce ==
    /\ \A op \in Finalizers : n[op] <= 1
    /\ (/\ stage = "destroyed"
        /\ n["ProcessRequestHeaders"] >= 1
        /\ n["ProcessResponseHeaders"] >= 1
        /\ n["SendLocalReply"] = 0)
       => \A op \in Finalizers : n[op] = 1

(***************************************************************************)
(* C2: once wasInterrupted is true, every later request-body and           *)
(* response-body chunk event returns LocalReply, and no later event makes  *)
(* an engine-mutating call except ProcessResponseBody, ProcessLogging and  *)
(* Close at teardown.                                                      *)
(***************************************************************************)
C2_NothingForwardedAfterInterruption ==
    pre.wasInterrupted =>
        /\ event \in ChunkEvents => ret = LocalReply
        /\ event # "OnDestroy" => Made(MutatingOps) = {}
        /\ event = "OnDestroy" =>
               Made(MutatingOps) = Made({"ProcessResponseBody", "ProcessLogging", "Close"})

(***************************************************************************)
(* C3 as stated: when IsRuleEngineOff() is true in the request-headers     *)
(* event, every event returns Continue and no later event of the exchange, *)
(* teardown included, makes an engine evaluation call.                     *)
(***************************************************************************)
C3_NoEvaluationWhenEngineOff ==
    offAtHeaders =>
        /\ event # "OnDestroy" => ret = Continue
        /\ event # "DecodeHeaders" => Made(EvaluationOps) = {}

(***************************************************************************)
(* C3 amended: when IsRuleEngineOff() is true in the request-headers       *)
(* event, that event and every later request-body, response-headers and    *)
(* response-body event return Continue without an engine evaluation call;  *)
(* teardown still invokes ProcessResponseBody once, then ProcessLogging    *)
(* and Close.                                                              *)
(***************************************************************************)
C3_NoEvaluationWhenEngineOffUntilTeardown ==
    offAtHeaders =>
        /\ event # "OnDestroy" => ret = Continue
        /\ event \in {"DecodeData", "EncodeHeaders", "EncodeData"} => Made(EvaluationOps) = {}
        /\ event = "OnDestroy" =>
               OpsInOrder = << "ProcessResponseBody", "ProcessLogging", "Close" >>

C3_Witness ==
    /\ offAtHeaders
    /\ event = "EncodeData"
    /\ reqChunks > 0
    /\ ret = Continue

(***************************************************************************)
(* C4 as stated: an Interruption returned by ProcessRequestHeaders,        *)
(* WriteRequestBody or ProcessRequestBody is answered by SendLocalReply on *)
(* the decoder direction, one returned by ProcessResponseHeaders,          *)
(* WriteResponseBody or ProcessResponseBody on the encoder direction, in   *)
(* whichever event the operation runs.                                     *)
(***************************************************************************)
C4_DirectionFollowsPhase ==
    /\ \A i \in Interrupting(RequestPhaseOps) : \E j \in RepliesOn(Decoder) : i < j
    /\ \A i \in Interrupting(ResponsePhaseOps) : \E j \in RepliesOn(Encoder) : i < j

(***************************************************************************)
(* C4 amended: an Interruption returned by an engine operation is answered *)
(* by SendLocalReply on the decoder direction when the operation runs in   *)
(* the request-headers or a request-body event and on the encoder          *)
(* direction when it runs in the response-headers or a response-body       *)
(* event, so that of ProcessRequestBody run late inside the                *)
(* response-headers event goes to the encoder direction; the Interruption  *)
(* ProcessResponseBody returns at teardown is not answered.                *)
(***************************************************************************)
C4_DirectionFollowsEvent ==
    /\ event \in RequestEvents =>
           /\ \A i \in Interrupting(ReturningOps) : \E j \in RepliesOn(Decoder) : i < j
           /\ RepliesOn(Encoder) = {}
    /\ event \in ResponseEvents =>
           /\ \A i \in Interrupting(ReturningOps) : \E j \in RepliesOn(Encoder) : i < j
           /\ RepliesOn(Decoder) = {}
    /\ event = "OnDestroy" => Replies = {}

C4_Witness ==
    /\ event = "EncodeHeaders"
    /\ Interrupting({"ProcessRequestBody"}) # {}
    /\ RepliesOn(Encoder) # {}

(***************************************************************************)
(* C5: if ProcessRequestHeaders returns an Interruption, the               *)
(* request-headers event sets wasInterrupted, ends with SendLocalReply on  *)
(* the decoder direction carrying the Interruption's status and an empty   *)
(* body, returns LocalReply, and ProcessRequestBody is invoked neither in  *)
(* that event nor in any later one.                                        *)
(***************************************************************************)
C5_RequestHeaderInterruption ==
    interruption.op = "ProcessRequestHeaders" =>
        /\ wasInterrupted
        /\ n["ProcessRequestBody"] = 0
        /\ event = "DecodeHeaders" =>
               /\ ret = LocalReply
               /\ Replies = {Len(calls)}
               /\ calls[Len(calls)] =
                      Call("SendLocalReply", Decoder, interruption.status, FALSE, EmptyBody, "")

C5_Witness ==
    /\ interruption.op = "ProcessRequestHeaders"
    /\ interruption.status = 413
    /\ reqChunks > 0
    /\ respChunks > 0
    /\ stage = "destroyed"

\* the engine calls before position j of the last event that returned an
\* Interruption or an error, and the last of them: what reply j answers
VerdictsBefore(j) == {i \in Interrupting(ReturningOps) \cup Failing(ReturningOps) : i < j}
Cause(j) == calls[CHOOSE i \in VerdictsBefore(j) : \A k \in VerdictsBefore(j) : k <= i]

\* the replies of the guards: of the request-headers event before any
\* verdict of the engine, and of a chunk event of an interrupted exchange
GuardReply(j) ==
    \/ event = "DecodeHeaders" /\ calls[j].status \in {StatusBadRequest, StatusForbidden}
    \/ event \in ChunkEvents /\ pre.wasInterrupted /\ calls[j].status = StatusForbidden

(***************************************************************************)
(* C6 as stated: every local reply has an empty body and carries the       *)
(* status of the Interruption that caused it; the only statuses the filter *)
(* chooses itself are the 400/403 of the guards of the request-headers     *)
(* event and the 403 re-sent on chunk events after an interruption.        *)
(***************************************************************************)
C6_StatusIsEngineChosen ==
    \A j \in Replies :
        /\ calls[j].body = EmptyBody
        /\ IF VerdictsBefore(j) # {}
           THEN Cause(j).status # 0 /\ calls[j].status = Cause(j).status
           ELSE GuardReply(j)

(***************************************************************************)
(* C6 amended: every local reply has an empty body, and the reply to an    *)
(* Interruption carries exactly the Interruption's status; the statuses    *)
(* the filter chooses itself are the 400/403 of the guards of the          *)
(* request-headers event, the 403 re-sent on chunk events after an         *)
(* interruption, and the 500 sent when an engine write or finalize         *)
(* operation returns an error.                                             *)
(***************************************************************************)
C6_StatusIsEngineChosenOr500 ==
    \A j \in Replies :
        /\ calls[j].body = EmptyBody
        /\ IF VerdictsBefore(j) # {}
           THEN IF Cause(j).err
                THEN calls[j].status = StatusInternalServerError
                ELSE calls[j].status = Cause(j).status
           ELSE GuardReply(j)

C6_Witness ==
    /\ event = "DecodeData"
    /\ \E j \in Replies :
          /\ VerdictsBefore(j) # {}
          /\ Cause(j).op = "WriteRequestBody"
          /\ calls[j].status = 413

(***************************************************************************)
(* C7 as stated: a non-Interruption error of WriteRequestBody,             *)
(* ProcessRequestBody or WriteResponseBody is only logged, no local reply  *)
(* is sent and the event does not return LocalReply; the only              *)
(* non-Interruption engine error that produces a local reply is one of     *)
(* ProcessResponseBody on the end-of-stream response-body chunk.           *)
(***************************************************************************)
PlainErrors(ops) == {i \in Failing(ops) : calls[i].status = 0}

EventDirection == IF event \in RequestEvents THEN Decoder ELSE Encoder

C8_ScrubbedBeforeReply ==
    (/\ event = "EncodeData"
     /\ endStream
     /\ tx.responseBodyAccess
     /\ PlainErrors({"ProcessResponseBody"}) # {})
    => /\ buffer = Zeros(Len(buffer))
       /\ \A j \in Replies : \E k \in Made({"buffer.Set"}) : k < j

(***************************************************************************)
(* C9: a request-headers event with an empty Host sends one local reply on *)
(* the decoder direction with a client-error status and returns LocalReply *)
(* without creating a Transaction or calling the engine; the Transaction   *)
(* stays nil for the rest of the exchange and teardown does nothing.       *)
(***************************************************************************)
HostWasMissing == decoded /\ hostMissing

C9_MissingHost ==
    HostWasMissing =>
        /\ tx.nil
        /\ \A op \in Ops \ {"SendLocalReply"} : n[op] = 0
        /\ Made(MutatingOps) = {}
        /\ event = "DecodeHeaders" =>
               /\ ret = LocalReply
               /\ Len(calls) = 1
               /\ calls[1].op = "SendLocalReply"
               /\ calls[1].dir = Decoder
               /\ calls[1].status \in 400..499
        /\ event = "OnDestroy" => calls = << >>

C9_Witness ==
    /\ HostWasMissing
    /\ event = "OnDestroy"
    /\ reqChunks > 0
    /\ respChunks > 0

(***************************************************************************)
(* C10 as stated: when the request-headers event fails input validation (a *)
(* Host that does not split, an address that does not parse, a             *)
(* non-numeric port), no Transaction has been created and no engine        *)
(* operation has been invoked when the handler returns.                    *)
(***************************************************************************)
ValidationMessages == { "failed to parse server name from Host", "address formatting err",
                        "port formatting err" }

ValidationFailed ==
    /\ event = "DecodeHeaders"
    /\ \E i \in Made({"Log"}) : calls[i].arg \in ValidationMessages

C10_RejectedBeforeAnyEngineCall ==
    ValidationFailed =>
        /\ tx.nil
        /\ \A i \in 1..Len(calls) : calls[i].op \in {"SendLocalReply", "Log"}

(***************************************************************************)
(* C10 amended: when the request-headers event fails input validation on a *)
(* non-empty Host, the Transaction has already been created                *)
(* (NewTransactionWithID and AddRequestHeader of the Host come first, and  *)
(* before the addresses are parsed also SetServerName and                  *)
(* IsRuleEngineOff); the single 400/403 local reply on the decoder         *)
(* direction is issued before any engine evaluation of the connection, the *)
(* URI, the headers or the body, none of which has been invoked when the   *)
(* handler returns LocalReply.                                             *)
(***************************************************************************)
C10_RejectedBeforeAnyEvaluation ==
    ValidationFailed =>
        /\ ret = LocalReply
        /\ ~tx.nil
        /\ SubSeq(OpsInOrder, 1, 2) = << "NewTransactionWithID", "AddRequestHeader" >>
        /\ \A i \in 1..Len(calls) :
               calls[i].op \in {"NewTransactionWithID", "AddRequestHeader", "SetServerName",
                                "IsRuleEngineOff", "SendLocalReply", "Log"}
        /\ Cardinality(Replies) = 1
        /\ \A j \in Replies :
               /\ calls[j].dir = Decoder
               /\ calls[j].status \in {StatusBadRequest, StatusForbidden}
               /\ calls[j].body = EmptyBody

C10_Witness ==
    /\ ValidationFailed
    /\ \E i \in Made({"Log"}) : calls[i].arg = "port formatting err"
    /\ Made({"IsRuleEngineOff"}) # {}

(***************************************************************************)
(* C11 as stated: once the connection is an established websocket (the     *)
(* Upgrade: websocket + Connection: upgrade pair on the request and on the *)
(* response headers), neither WriteResponseBody nor ProcessResponseBody is *)
(* invoked at any point of the exchange.                                   *)
(***************************************************************************)
WebSocketEstablished == connection = connectionStateWebsocketConnection

C11_NoResponseBodyCalls ==
    WebSocketEstablished =>
        /\ n["WriteResponseBody"] = 0
        /\ n["ProcessResponseBody"] = 0

(***************************************************************************)
(* C11 amended: once the connection is an established websocket,           *)
(* WriteResponseBody is never invoked and every response-body chunk event  *)
(* returns Continue without an engine evaluation call, however many        *)
(* arrive; ProcessResponseBody is still invoked outside the chunk events:  *)
(* by teardown, and by the response-headers event that has endStream.      *)
(***************************************************************************)
C11_NoResponseBodyCallsInChunks ==
    WebSocketEstablished =>
        /\ n["WriteResponseBody"] = 0
        /\ event = "EncodeData" => ret = Continue /\ Made(EvaluationOps) = {}
        /\ event = "EncodeHeaders" => (Made({"ProcessResponseBody"}) # {} => endStream)
        /\ event = "OnDestroy" => Cardinality(Made({"ProcessResponseBody"})) = 1

C11_Witness ==
    /\ WebSocketEstablished
    /\ tx.responseBodyAccess
    /\ event = "EncodeData"
    /\ respChunks = MaxChunks
    /\ Len(buffer) > 0

(***************************************************************************)
(* C12: when a response-body chunk event finds IsResponseBodyAccessible()  *)
(* false, it sets wasResponseBodyProcessedWithNoBody and invokes           *)
(* ProcessResponseBody; from then on WriteResponseBody has never been      *)
(* called, ProcessResponseBody has been called exactly once in the         *)
(* exchange, every later response-body chunk event returns Continue        *)
(* without an engine evaluation call, and teardown does not call           *)
(* ProcessResponseBody again.                                              *)
(***************************************************************************)
FoundBodyInaccessible ==
    /\ event = "EncodeData"
    /\ Made({"IsResponseBodyAccessible"}) # {}
    /\ ~tx.responseBodyAccess

C12_ResponseBodyFinalizedOnce ==
    /\ FoundBodyInaccessible =>
           /\ ~pre.wasResponseBodyProcessedWithNoBody
           /\ wasResponseBodyProcessedWithNoBody
           /\ Cardinality(Made({"ProcessResponseBody"})) = 1
    /\ wasResponseBodyProcessedWithNoBody =>
           /\ n["WriteResponseBody"] = 0
           /\ n["ProcessResponseBody"] = 1
    /\ pre.wasResponseBodyProcessedWithNoBody =>
           /\ event = "EncodeData" => ret = Continue /\ Made(EvaluationOps) = {}
           /\ event = "OnDestroy" => Made({"ProcessResponseBody"}) = {}

C12_Witness ==
    /\ pre.wasResponseBodyProcessedWithNoBody
    /\ n["ProcessResponseBody"] = 1
    /\ respChunks = MaxChunks
    /\ stage = "destroyed"

(***************************************************************************)
(* C13: at most one Transaction is created per filter instance; Close and  *)
(* ProcessLogging are called from teardown only, where a created           *)
(* Transaction gets ProcessLogging and then Close as its last two          *)
(* operations, each exactly once per exchange, so that no Transaction      *)
(* operation follows Close.  With teardown eventually delivered, every     *)
(* created Transaction is eventually closed.                               *)
(***************************************************************************)
TornDown ==
    /\ n["ProcessLogging"] = 1
    /\ n["Close"] = 1
    /\ event = "OnDestroy"
    /\ Len(OpsInOrder) >= 2
    /\ SubSeq(OpsInOrder, Len(OpsInOrder) - 1, Len(OpsInOrder)) = << "ProcessLogging", "Close" >>

SingleDisposal ==
    /\ n["NewTransactionWithID"] = (IF tx.nil THEN 0 ELSE 1)
    /\ event # "OnDestroy" => Made({"ProcessLogging", "Close"}) = {}
    /\ (event = "OnDestroy" /\ ~tx.nil) => tx.closed
    /\ IF tx.closed THEN TornDown ELSE n["ProcessLogging"] = 0 /\ n["Close"] = 0

C13_ClosedOnceAtTeardown == [] SingleDisposal /\ (~tx.nil ~> tx.closed)

C13_Witness ==
    /\ tx.closed
    /\ reqChunks > 0
    /\ respChunks > 0
    /\ wasInterrupted

(***************************************************************************)
(* C14: on a plain Http exchange with the rule engine on and request-body  *)
(* access enabled, when WriteRequestBody or ProcessRequestBody returns an  *)
(* Interruption in a request-body chunk event, no earlier request-side     *)
(* event of the exchange has returned Continue.                            *)
(***************************************************************************)
InterruptedInRequestBody ==
    /\ event = "DecodeData"
    /\ IsHttp(connection)
    /\ ~tx.ruleEngineOff
    /\ tx.requestBodyAccess
    /\ Interrupting({"WriteRequestBody", "ProcessRequestBody"}) # {}

C14_WithheldUntilRequestBodyVerdict ==
    InterruptedInRequestBody => ~released

(***************************************************************************)
(* C15: with the rule engine on and response-body access enabled on a      *)
(* plain Http connection, a response-body chunk event that carries bytes,  *)
(* is not end-of-stream, not interrupted and not failed returns a          *)
(* keep-buffering status and not Continue.                                 *)
(***************************************************************************)
InspectedResponseChunk ==
    /\ event = "EncodeData"
    /\ ~endStream
    /\ Len(buffer) > 0
    /\ ~tx.nil
    /\ ~tx.ruleEngineOff
    /\ tx.responseBodyAccess
    /\ IsHttp(connection)
    /\ ~wasInterrupted
    /\ Failing(ReturningOps) = {}

C15_ResponseChunksKeepBuffering ==
    InspectedResponseChunk => ret \in {StopAndBuffer, StopAndBufferWatermark}

(***************************************************************************)
(* C16: when the rule engine is off for the exchange or                    *)
(* IsResponseBodyAccessible() is false, no response-headers and no         *)
(* response-body chunk event returns a pause-and-buffer status: each       *)
(* returns Continue, or LocalReply after a local reply was sent or on an   *)
(* exchange that was interrupted.                                          *)
(***************************************************************************)
C16_NoBufferingWithoutInspection ==
    (/\ event \in ResponseEvents
     /\ (tx.ruleEngineOff \/ ~tx.responseBodyAccess))
    => /\ ret \notin {StopAndBuffer, StopAndBufferWatermark}
       /\ ret \in {Continue, LocalReply}
       /\ ret = LocalReply => Replies # {}
       /\ tx.ruleEngineOff => ret = Continue

C16_Witness ==
    /\ event = "EncodeData"
    /\ ~tx.nil
    /\ ~tx.ruleEngineOff
    /\ ~tx.responseBodyAccess
    /\ respChunks = MaxChunks
    /\ Len(buffer) > 0
    /\ n["ProcessResponseHeaders"] = 1
    /\ ret = Continue

(***************************************************************************)
(* C18: ProcessRequestBody is invoked at most once per exchange, in the    *)
(* case the claim singles out: in an exchange without request-body chunk   *)
(* events, where the request-headers event had endStream and finalized the *)
(* request-body phase itself, the response-headers event does not invoke   *)
(* it again.                                                               *)
(***************************************************************************)
C18_RequestBodyFinalizedAtMostOnce ==
    reqChunks = 0 => n["ProcessRequestBody"] <= 1

(***************************************************************************)
(* C19: ProcessResponseBody is invoked at most once per exchange, in the   *)
(* case the claim singles out: in an exchange without response-body chunk  *)
(* events, where the response-headers event had endStream and finalized    *)
(* the response-body phase itself, teardown does not invoke it again.      *)
(***************************************************************************)
C19_ResponseBodyFinalizedAtMostOnce ==
    respChunks = 0 => n["ProcessResponseBody"] <= 1

(***************************************************************************)
(* C20: when IsRequestBodyAccessible() is false, WriteRequestBody is never *)
(* called, and after any number of request-body chunk events, none of      *)
(* which was answered locally, ProcessRequestBody has been invoked the     *)
(* one time it is invoked for a body delivered as one chunk.               *)
(***************************************************************************)
UninspectedRequestBody ==
    /\ event = "DecodeData"
    /\ ~tx.nil
    /\ ~tx.ruleEngineOff
    /\ ~tx.requestBodyAccess
    /\ n["SendLocalReply"] = 0

C20_FinalizeIndependentOfChunking ==
    UninspectedRequestBody =>
        /\ n["WriteRequestBody"] = 0
        /\ n["ProcessRequestBody"] = 1

(***************************************************************************)
(* C21: the connection state changes only from Http to                     *)
(* WebSocketUpgradeRequested, in the request-headers event whose headers   *)
(* carry an upgrade header containing 'websocket' and a connection header  *)
(* containing 'upgrade', and from WebSocketUpgradeRequested to             *)
(* WebSocketEstablished, in the response-headers event whose headers carry *)
(* the same pair; it never goes back, and WebSocketEstablished is not      *)
(* reached unless the request asked for the upgrade.                       *)
(***************************************************************************)
UpgradePair(hm) ==
    /\ \E i \in 1..Len(hm) : hm[i].key = "upgrade" /\ Contains(ToLower(hm[i].value), Websocket)
    /\ \E i \in 1..Len(hm) : hm[i].key = "connection" /\ Contains(ToLower(hm[i].value), Upgrade)

C21_ConnectionOnlyAdvances ==
    /\ connection # pre.connection =>
           \/ /\ event = "DecodeHeaders"
              /\ pre.connection = connectionStateHTTP
              /\ connection = connectionStateUpgradeWebsocketRequested
              /\ UpgradePair(headers)
           \/ /\ event = "EncodeHeaders"
              /\ pre.connection = connectionStateUpgradeWebsocketRequested
              /\ connection = connectionStateWebsocketConnection
              /\ UpgradePair(headers)
    /\ connection >= pre.connection
    /\ connection # connectionStateHTTP => asked

C21_Witness ==
    /\ event = "EncodeHeaders"
    /\ pre.connection = connectionStateUpgradeWebsocketRequested
    /\ connection = connectionStateWebsocketConnection
    /\ asked

(***************************************************************************)
(* C22: a request-body chunk event that is not end-of-stream, in an        *)
(* exchange that is not interrupted, with the rule engine on, request-body *)
(* access enabled and no error or Interruption from the write, returns a   *)
(* keep-buffering status when the connection is Http, for a chunk of any   *)
(* length including zero, and Continue when the connection is not Http.    *)
(***************************************************************************)
InspectedRequestChunk ==
    /\ event = "DecodeData"
    /\ ~endStream
    /\ ~pre.wasInterrupted
    /\ ~tx.nil
    /\ ~tx.ruleEngineOff
    /\ tx.requestBodyAccess
    /\ Interrupting(ReturningOps) = {}
    /\ Failing(ReturningOps) = {}

C22_RequestChunksKeepBuffering ==
    InspectedRequestChunk =>
        IF IsHttp(connection)
        THEN ret \in {StopAndBuffer, StopAndBufferWatermark}
        ELSE ret = Continue

(***************************************************************************)
(* C23: the response-headers event returns a pause-and-buffer status       *)
(* exactly when the exchange is not interrupted, a Transaction exists with *)
(* the rule engine on, neither the late ProcessRequestBody nor             *)
(* ProcessResponseHeaders interrupted or failed, endStream is false,       *)
(* IsResponseBodyAccessible() is true and the connection is Http; in every *)
(* other case it returns Continue or LocalReply.                           *)
(***************************************************************************)
ResponseHeadersHeld ==
    /\ ~pre.wasInterrupted
    /\ ~tx.nil
    /\ ~tx.ruleEngineOff
    /\ Interrupting({"ProcessRequestBody", "ProcessResponseHeaders"}) = {}
    /\ Failing({"ProcessRequestBody", "ProcessResponseHeaders"}) = {}
    /\ ~endStream
    /\ tx.responseBodyAccess
    /\ connection = connectionStateHTTP

C23_BufferedExactlyWhenInspected ==
    event = "EncodeHeaders" =>
        IF ResponseHeadersHeld
        THEN ret \in {StopAndBuffer, StopAndBufferWatermark}
        ELSE ret \in {Continue, LocalReply}

C23_Witness ==
    /\ event = "EncodeHeaders"
    /\ ResponseHeadersHeld
    /\ Made({"ProcessRequestBody"}) # {}
    /\ Made({"ProcessResponseHeaders"}) # {}
    /\ ret = StopAndBuffer

(***************************************************************************)
(* C24: ProcessResponseHeaders is never invoked in an exchange unless      *)
(* ProcessRequestBody has been invoked earlier in that exchange, in an     *)
(* earlier event or earlier in the same event, whatever the request-side   *)
(* events did.                                                             *)
(***************************************************************************)
C24_RequestBodyBeforeResponseHeaders ==
    /\ n["ProcessResponseHeaders"] >= 1 => n["ProcessRequestBody"] >= 1
    /\ \A j \in Made({"ProcessResponseHeaders"}) :
           \/ \E i \in Made({"ProcessRequestBody"}) : i < j
           \/ Made({"ProcessRequestBody"}) = {} /\ n["ProcessRequestBody"] >= 1

C24_Witness ==
    /\ event = "EncodeHeaders"
    /\ Made({"ProcessResponseHeaders"}) # {}
    /\ Made({"ProcessRequestBody"}) # {}
    /\ reqChunks > 0
    /\ n["WriteRequestBody"] >= 1
    /\ n["ProcessRequestBody"] = 1

(***************************************************************************)
(* C25: teardown sends no local reply in either direction and does not     *)
(* change wasInterrupted: an Interruption or an error returned by the      *)
(* ProcessResponseBody call teardown makes is not enforced, and            *)
(* ProcessLogging and Close still follow it.                               *)
(***************************************************************************)
C25_TeardownEnforcesNothing ==
    event = "OnDestroy" =>
        /\ Replies = {}
        /\ wasInterrupted = pre.wasInterrupted
        /\ ret = NoStatus
        /\ Made({"ProcessResponseBody"}) # {} =>
               OpsInOrder = << "ProcessResponseBody", "ProcessLogging", "Close" >>

C25_Witness ==
    /\ event = "OnDestroy"
    /\ Interrupting({"ProcessResponseBody"}) # {}
    /\ ~wasInterrupted
    /\ tx.closed

(***************************************************************************)
(* C26: after an interruption, every further request-body chunk event,     *)
(* however many arrive, sends one local reply on the decoder direction     *)
(* with status 403 and an empty body, returns LocalReply, invokes no       *)
(* engine operation and leaves every field of the filter unchanged.        *)
(***************************************************************************)
C26_ReReplyIsIdempotent ==
    (event = "DecodeData" /\ pre.wasInterrupted) =>
        /\ ret = LocalReply
        /\ Len(calls) = 1
        /\ calls[1].op = "SendLocalReply"
        /\ calls[1].dir = Decoder
        /\ calls[1].status = StatusForbidden
        /\ calls[1].body = EmptyBody
        /\ Filter = pre

C26_Witness ==
    /\ event = "DecodeData"
    /\ interruption.op = "ProcessRequestHeaders"
    /\ pre.wasInterrupted
    /\ reqChunks = MaxChunks
    /\ n["SendLocalReply"] >= 2

(***************************************************************************)
(* C27: in the request-headers event the engine is fed in the order        *)
(* ProcessConnection, ProcessURI, one AddRequestHeader per header of the   *)
(* header set in the order of the set, then ProcessRequestHeaders; and     *)
(* ProcessRequestHeaders is never invoked unless ProcessConnection and     *)
(* ProcessURI were invoked before it in the same event.  (The              *)
(* AddRequestHeader of the Host made while the Transaction is created is   *)
(* not one of the header set.)                                             *)
(***************************************************************************)
\* the feeding calls of the last event, the Host of initializeTx left out
Fed ==
    LET feeds(c) == \/ c.op \in {"ProcessConnection", "ProcessURI", "ProcessRequestHeaders"}
                    \/ c.op = "AddRequestHeader" /\ c.arg # "Host"
    IN  SelectSeq(calls, feeds)

C27_ConnectionUriHeadersInOrder ==
    /\ Made({"ProcessRequestHeaders"}) # {} =>
           /\ event = "DecodeHeaders"
           /\ Len(Fed) = Len(headers) + 3
           /\ Fed[1].op = "ProcessConnection"
           /\ Fed[2].op = "ProcessURI"
           /\ \A i \in 1..Len(headers) :
                  Fed[2 + i].op = "AddRequestHeader" /\ Fed[2 + i].arg = headers[i].key
           /\ Fed[Len(Fed)].op = "ProcessRequestHeaders"
    /\ \A j \in Made({"ProcessRequestHeaders"}) :
           \E i \in Made({"ProcessConnection"}) : \E k \in Made({"ProcessURI"}) : i < k /\ k < j

C27_Witness ==
    /\ event = "DecodeHeaders"
    /\ Len(headers) = 3
    /\ Made({"ProcessRequestHeaders"}) # {}
    /\ ret = StopAndBufferWatermark

(***************************************************************************)
(* C28: the protocol passed to ProcessResponseHeaders is always the value  *)
(* that was passed to ProcessURI in the request-headers event of the same  *)
(* exchange (the negotiated protocol, or 'HTTP/2.0' when the proxy reports *)
(* none); ProcessResponseHeaders is never invoked with a protocol that was *)
(* not captured at request-header time.                                    *)
(***************************************************************************)
C28_ResponseProtocolIsCaptured ==
    \A j \in Made({"ProcessResponseHeaders"}) :
        /\ n["ProcessURI"] >= 1
        /\ calls[j].arg = uriProtocol
        /\ calls[j].arg \in Protocols \cup {DefaultProtocol}

(***************************************************************************)
(* C29: the Transaction is created from the WAF that HostDirectiveMap maps *)
(* the request host to, or from the WAF of DefaultDirective when the host  *)
(* has no mapping, with the value of the x-request-id header as its ID     *)
(* (the empty ID when the header is absent); and for every Configuration   *)
(* that Parse accepts the WAF selected exists in WafMaps, for every host.  *)
(***************************************************************************)
RequestIdOf(hm) ==
    IF \E i \in 1..Len(hm) : hm[i].key = "x-request-id"
    THEN hm[CHOOSE i \in 1..Len(hm) : hm[i].key = "x-request-id"].value
    ELSE ""

C29_TransactionFromSelectedWaf ==
    /\ \A j \in Made({"NewTransactionWithID"}) :
           /\ event = "DecodeHeaders"
           /\ calls[j].dir = IF host \in DOMAIN config.HostDirectiveMap
                             THEN config.HostDirectiveMap[host]
                             ELSE config.DefaultDirective
           /\ calls[j].dir \in config.WafMaps
           /\ calls[j].arg = RequestIdOf(headers)
    /\ loaded = "accepted" =>
           /\ Parse(raw).err = NoError
           /\ config.DefaultDirective \in config.WafMaps
           /\ \A h \in DOMAIN config.HostDirectiveMap :
                  config.HostDirectiveMap[h] \in config.WafMaps

C29_Witness ==
    /\ loaded = "accepted"
    /\ raw # ConfigurationSource
    /\ event = "DecodeHeaders"
    /\ host \in DOMAIN config.HostDirectiveMap
    /\ config.HostDirectiveMap[host] # config.DefaultDirective
    /\ \E j \in Made({"NewTransactionWithID"}) :
           calls[j].dir = "strict" /\ calls[j].arg = RequestId

(***************************************************************************)
(* C30: every SendLocalReply issued while a request-side event             *)
(* (request-headers, request-body chunk) is handled uses the decoder       *)
(* callbacks, every one issued while a response-side event                 *)
(* (response-headers, response-body chunk) is handled uses the encoder     *)
(* callbacks, and teardown issues none.                                    *)
(***************************************************************************)
C30_ReplyOnTheSideOfTheEvent ==
    \A j \in Replies :
        \/ event \in RequestEvents /\ calls[j].dir = Decoder
        \/ event \in ResponseEvents /\ calls[j].dir = Encoder

C30_Witness ==
    /\ event = "EncodeData"
    /\ Interrupting({"WriteResponseBody"}) # {}
    /\ \E j \in Replies : calls[j].dir = Encoder
    /\ n["SendLocalReply"] = 1
    /\ reqChunks > 0

(***************************************************************************)
(* C31: after an event has sent a local reply, whatever its cause (the     *)
(* 400/403 of a failed address or Host parse, the 500 of an engine error,  *)
(* an Interruption), no later event before teardown invokes an engine      *)
(* evaluation operation, and no further local reply is produced by engine  *)
(* evaluation; stated for the response-side events, which the proxy        *)
(* delivers for the local reply itself.                                    *)
(***************************************************************************)
\* an earlier event of the exchange has sent a local reply
RepliedEarlier == n["SendLocalReply"] > Cardinality(Replies)

C31_NoEvaluationAfterLocalReply ==
    (RepliedEarlier /\ event \in ResponseEvents) =>
        /\ Made(EvaluationOps) = {}
        /\ \A j \in Replies : VerdictsBefore(j) = {}

(***************************************************************************)
(* C32: when the request-headers event ended without creating a            *)
(* Transaction (empty Host), a later request-body chunk event invokes no   *)
(* Transaction operation and completes normally, as the response-headers,  *)
(* response-body and teardown events do; no event invokes an operation on  *)
(* a nil Transaction.                                                      *)
(***************************************************************************)
\* the operations and queries made on the Transaction in the last event
OnTransaction ==
    Made(MutatingOps \cup {"IsRuleEngineOff", "IsRequestBodyAccessible",
                           "IsResponseBodyAccessible", "panic"}) \ Made({"NewTransactionWithID"})

C32_NilTransactionIsGuarded ==
    pre.tx.nil =>
        /\ ret # Panic
        /\ (tx.nil /\ decoded) => OnTransaction = {}
        /\ (event = "DecodeData" /\ HostWasMissing) => ret \in {Continue, LocalReply}

(***************************************************************************)
(* C33: ProcessRequestBody and ProcessResponseHeaders are invoked only in  *)
(* exchanges where ProcessRequestHeaders was invoked before them: when the *)
(* request-headers event stops before ProcessRequestHeaders, no later      *)
(* event runs the request-body or response-header phase.                   *)
(* Stated for the response-headers event, which runs both phases.          *)
(***************************************************************************)
C33_LaterPhasesFollowRequestHeaders ==
    (event = "EncodeHeaders" /\ Made({"ProcessRequestBody", "ProcessResponseHeaders"}) # {}) =>
        n["ProcessRequestHeaders"] > 0

(***************************************************************************)
(* C34: whenever a request-side event with endStream = true returns        *)
(* Continue in an exchange whose rule engine is on, ProcessRequestBody has *)
(* already been invoked in that exchange, for an end-of-stream chunk of    *)
(* any length including zero.                                              *)
(***************************************************************************)
C34_ReleasedOnlyAfterRequestBodyPhase ==
    (/\ event \in RequestEvents
     /\ endStream
     /\ ret = Continue
     /\ ~tx.nil
     /\ ~tx.ruleEngineOff) => n["ProcessRequestBody"] > 0

(***************************************************************************)
(* C35: while the connection is WebSocketUpgradeRequested, no request-side *)
(* event returns a pause-and-buffer directive: neither the request-headers *)
(* event that detected the upgrade (when endStream is false) nor any       *)
(* request-body chunk event.                                               *)
(***************************************************************************)
PauseAndBuffer == {StopAndBuffer, StopAndBufferWatermark}

C35_UpgradeRequestIsNotHeld ==
    (event \in RequestEvents /\ IsWebsocketUpgradeRequested(connection)) =>
        ret \notin PauseAndBuffer

C38_FlagsOnlyRise ==
    /\ pre.wasInterrupted => wasInterrupted
    /\ pre.wasRequestBodyProcessed => wasRequestBodyProcessed
    /\ pre.wasResponseBodyProcessed => wasResponseBodyProcessed
    /\ pre.wasResponseBodyProcessedWithNoBody => wasResponseBodyProcessedWithNoBody
    /\ wasResponseBodyProcessedWithNoBody => wasResponseBodyProcessed
    /\ wasInterrupted => (interruption # NoInterruption /\ n["SendLocalReply"] > 0)
    /\ (wasInterrupted /\ ~pre.wasInterrupted) =>
            (HandledInterruption(calls) # NoInterruption /\ Cardinality(Replies) = 1)

\* every flag was set before an event and is still set after it
C38_Witness ==
    /\ event \in ResponseEvents \cup {"OnDestroy"}
    /\ pre.wasInterrupted /\ wasInterrupted
    /\ pre.wasRequestBodyProcessed /\ wasRequestBodyProcessed
    /\ pre.wasResponseBodyProcessed /\ wasResponseBodyProcessed
    /\ pre.wasResponseBodyProcessedWithNoBody /\ wasResponseBodyProcessedWithNoBody

(***************************************************************************)
(* C39: the format (json or plain) in which the engine's error callback    *)
(* writes a matched-rule line for a transaction is the log_format of the   *)
(* Configuration whose Parse call built that transaction's WAF, also after *)
(* another Configuration with a different log_format has been parsed later *)
(* in the same process.                                                    *)
(***************************************************************************)
C39_RuleLineInFormatOfItsConfiguration ==
    ruleLine # NoLine => ruleLine.format = configs[ruleLine.waf].LogFormat

(***************************************************************************)
(* C40: each log line a filter instance emits contains only the message,   *)
(* error and key/value fields passed to that log call: fields of earlier   *)
(* log calls of the same exchange do not appear in later lines, and the    *)
(* logger's buffered state is the same before and after each call.         *)
(***************************************************************************)
\* the key/value pairs of a line, and those a call was handed
LineFields(l) ==
    IF l.format = Json THEN { << k, l.line[k] >> : k \in DOMAIN l.line }
    ELSE { l.line[i] : i \in DOMAIN l.line }
PartsFields(parts) ==
    { << parts[i].K, parts[i].V >> : i \in {j \in DOMAIN parts : parts[j].V # NilError} }

C40_LineHoldsOnlyItsOwnFields ==
    logLine # NoLine =>
        /\ LineFields(logLine) = PartsFields(logLine.parts)
        /\ Logger = logLine.before

(***************************************************************************)
(* C17: no event writes to the shared Configuration, and when the events   *)
(* of two exchanges on two filter instances are interleaved in any order,  *)
(* every event of each exchange returns the status, makes the engine calls *)
(* and sends the local replies it does when the exchange runs alone.       *)
(***************************************************************************)
C17_ExchangesIndependent ==
    /\ config = Configuration
    /\ \A i \in Exchanges :
           /\ exchange[i].ret = exchange[i].aloneRet
           /\ exchange[i].calls = exchange[i].aloneCalls

C17_Witness ==
    /\ exchange[1].stage = "response"
    /\ exchange[1].respChunks > 0
    /\ filters[1].wasInterrupted
    /\ exchange[2].stage = "request"
    /\ exchange[2].reqChunks > 0
    /\ exchange[2].ret = StopAndBuffer
    /\ \E c \in 1..Len(exchange[2].calls) : exchange[2].calls[c].op = "WriteRequestBody"

====
